---- MODULE Spec2Model ----
(***************************************************************************)
(* Verification model of the TTS recording application:                    *)
(*   utils/audio_utils.py   trim_silence_numpy                             *)
(*   core/data_manager.py   DataManager                                    *)
(*   core/audio_recorder.py AudioRecorder and its RecorderThread           *)
(*   ui/main_window.py      MainWindow handlers                            *)
(* Python indices are kept 0-based; sequences are 1-based, so element i of *)
(* a Python list is s[i + 1].                                              *)
(***************************************************************************)
EXTENDS Integers, Sequences, FiniteSets, TLC

None == "None"

\* ------------------------------------------------------------------------
\* Bounds of the model
\* ------------------------------------------------------------------------
MaxLen == 5

\* number of calls made to a DataManager in one behaviour
MaxCalls == 3

\* number of calls made to an AudioRecorder, or of user actions on the main
\* window, in one behaviour
MaxMWCalls == 4

\* ------------------------------------------------------------------------
\* Generic helpers
\* ------------------------------------------------------------------------
Abs(x) == IF x < 0 THEN -x ELSE x

Min2(a, b) == IF a < b THEN a ELSE b

Max2(a, b) == IF a > b THEN a ELSE b

SeqsUpTo(S, n) == UNION {[1..k -> S] : k \in 0..n}

\* ========================================================================
\* utils/audio_utils.py : trim_silence_numpy
\* ========================================================================
\* A sample is stored as it is in the array: a float array holds amplitudes
\* (modelled in hundredths, k stands for k/100), an int16 array holds raw
\* integers.  A normalised sample is the rational <<num, den>>.
Int16Max == 32767

FloatSamples == {1, -2, 50}

Int16Samples == {327, -328, 16384}

SampleRates == {500, 1000}

PaddingMs == 0..3

ThresholdDbs == {-40, -20}

\* 10 ** (threshold_db / 20.0) as the rational <<num, den>>
AmplitudeThreshold(threshold_db) ==
    CASE threshold_db = -40 -> <<1, 100>>
      [] threshold_db = -20 -> <<1, 10>>
      [] threshold_db = 0   -> <<1, 1>>

\* audio_data.astype(np.float32) / 32767.0 for int16, unchanged for floats
ToFloat(dtype, x) == IF dtype = "int16" THEN <<x, Int16Max>> ELSE <<x, 100>>

NormaliseAudio(dtype, audio) == [i \in 1..Len(audio) |-> ToFloat(dtype, audio[i])]

\* amplitude > amplitude_threshold, on rationals
AboveThreshold(q, thr) == Abs(q[1]) * thr[2] > thr[1] * q[2]

\* np.where(amplitude > amplitude_threshold)[0] : the 0-based indices, ascending
RECURSIVE NonSilentFrom(_, _, _)
NonSilentFrom(norm, thr, i) ==
    IF i > Len(norm) THEN <<>>
    ELSE (IF AboveThreshold(norm[i], thr) THEN <<i - 1>> ELSE <<>>)
         \o NonSilentFrom(norm, thr, i + 1)

NonSilentIndices(norm, thr) == NonSilentFrom(norm, thr, 1)

\* int(padding_ms * sample_rate / 1000), for the non-negative padding the
\* settings dialog allows
PaddingSamples(padding_ms, sample_rate) == (padding_ms * sample_rate) \div 1000

PyMinEnd(a, b) == Min2(a, b)

\* end_idx = min(len(audio_data) - 1, end_idx + padding_samples)
TrimEndIdx(n, last, pad) == PyMinEnd(n - 1, last + pad)

\* the padding forgotten on the leading side
TrimStartIdx_nopad(first, pad) == Max2(0, first)

\* start_idx = max(0, start_idx - padding_samples)
TrimStartIdx(first, pad) == Max2(0, first - pad)

\* audio_data[start_idx : end_idx + 1]
PySlice(s, lo, hiExcl) == SubSeq(s, lo + 1, hiExcl)

trim_silence_numpy(audio, dtype, sample_rate, threshold_db, padding_ms) ==
    IF Len(audio) = 0
    THEN [audio |-> <<>>, duration |-> <<0, 1>>]
    ELSE LET norm == NormaliseAudio(dtype, audio)
             thr  == AmplitudeThreshold(threshold_db)
             idxs == NonSilentIndices(norm, thr)
         IN IF Len(idxs) = 0
            THEN [audio |-> <<>>, duration |-> <<0, 1>>]
            ELSE LET pad   == PaddingSamples(padding_ms, sample_rate)
                     start == TrimStartIdx(idxs[1], pad)
                     end   == TrimEndIdx(Len(norm), idxs[Len(idxs)], pad)
                     trimmed == PySlice(norm, start, end + 1)
                 IN [audio |-> trimmed, duration |-> <<Len(trimmed), sample_rate>>]

\* ========================================================================
\* core/data_manager.py : DataManager
\* ========================================================================
NumRows == 2

MaxDur == 2

\* a cell of the duration column that holds text instead of a number
BadCell == -1

required_columns == {"id", "text"}

\* optional_columns: the columns load_csv adds when the file lacks them
optional_columns == {"recorded", "audio_path_48k", "audio_path_8k", "duration", "trimmed"}

AllColumns == required_columns \cup optional_columns \cup {"uploaded"}

\* the metadata columns on_data_loaded fills the combo boxes from
MetaColumns == {"language", "style", "speaker"}

\* number of session directory names the model distinguishes
MaxDirs == 2

\* An audio path cell: <output_dir>/<rate>khz/<id>.<ext>, where the session
\* directory is its suffix number (0 for the name without suffix).
Path(dir, rate, id) == [dir |-> dir, rate |-> rate, id |-> id]

\* the empty string in a path cell
EmptyPath == Path(-1, 0, 0)

\* pandas reads an empty cell as NaN and writes NaN as an empty cell
NaN == Path(-2, 0, 0)

Wav48 == Path(0, 48, 1)

Wav8 == Path(0, 8, 1)

\* A row; a column the table does not have keeps its placeholder here.
BlankRow(i) ==
    [id |-> i, recorded |-> FALSE, audio_path_48k |-> EmptyPath, audio_path_8k |-> EmptyPath,
     duration |-> 0, trimmed |-> FALSE, uploaded |-> FALSE]

RecordedRow(i) ==
    [BlankRow(i) EXCEPT !.recorded = TRUE, !.audio_path_48k = Wav48,
                        !.audio_path_8k = Wav8, !.duration = MaxDur]

NoTable == [loaded |-> FALSE, columns |-> {}, rows |-> <<>>]

Table(cols, rows) == [loaded |-> TRUE, columns |-> cols, rows |-> rows]

\* The CSV files of the model: what is on disk before the program starts.
CsvPaths == {"min.csv", "full.csv", "saved.csv", "empty.csv", "nocol.csv", "garbled.csv", "mixed.csv", "gone.csv", "new.csv"}

FileMissing == [kind |-> "missing", columns |-> {}, rows |-> <<>>]

FileGarbled == [kind |-> "garbled", columns |-> {}, rows |-> <<>>]

FileTable(cols, rows) == [kind |-> "table", columns |-> cols, rows |-> rows]

InitialCsvFiles ==
    [p \in CsvPaths |->
       CASE p = "min.csv"     -> FileTable(required_columns, [i \in 1..NumRows |-> BlankRow(i)])
         [] p = "full.csv"    -> FileTable(AllColumns \cup MetaColumns,
                                   [i \in 1..NumRows |-> IF i = 1 THEN RecordedRow(i) ELSE BlankRow(i)])
         [] p = "saved.csv"   -> FileTable(required_columns \cup optional_columns,
                                   [i \in 1..NumRows |-> IF i = 1 THEN RecordedRow(i) ELSE BlankRow(i)])
         [] p = "empty.csv"   -> FileTable(AllColumns, <<>>)
         [] p = "nocol.csv"   -> FileTable({"id"}, [i \in 1..NumRows |-> BlankRow(i)])
         [] p = "garbled.csv" -> FileGarbled
         [] p = "mixed.csv"   -> FileTable(required_columns \cup {"duration"},
                                   [i \in 1..NumRows |->
                                      IF i = 1 THEN [BlankRow(i) EXCEPT !.duration = BadCell]
                                      ELSE BlankRow(i)])
         [] OTHER             -> FileMissing]

\* DataFrame.to_csv: NaN cells are written as empty cells
ToCsvRow(r) ==
    [r EXCEPT !.audio_path_48k = IF @ = NaN THEN EmptyPath ELSE @,
              !.audio_path_8k  = IF @ = NaN THEN EmptyPath ELSE @]

to_csv(df) == FileTable(df.columns, [i \in 1..Len(df.rows) |-> ToCsvRow(df.rows[i])])

\* pd.read_csv: empty cells of a column the file has are read as NaN
FromCsvRow(cols, r) ==
    [r EXCEPT !.audio_path_48k = IF "audio_path_48k" \in cols /\ @ = EmptyPath THEN NaN ELSE @,
              !.audio_path_8k  = IF "audio_path_8k" \in cols /\ @ = EmptyPath THEN NaN ELSE @]

read_csv(f) == Table(f.columns, [i \in 1..Len(f.rows) |-> FromCsvRow(f.columns, f.rows[i])])

\* df['recorded'].sum()
RECURSIVE SumRecorded(_)
SumRecorded(rows) ==
    IF rows = <<>> THEN 0
    ELSE (IF Head(rows).recorded THEN 1 ELSE 0) + SumRecorded(Tail(rows))

\* df['duration'].sum() raises TypeError on a column that mixes text and numbers
DurationSumRaises(rows) == \E i \in 1..Len(rows) : rows[i].duration = BadCell

RECURSIVE SumDuration(_)
SumDuration(rows) ==
    IF rows = <<>> THEN 0 ELSE Head(rows).duration + SumDuration(Tail(rows))

Sig(name, idx) == [sig |-> name, idx |-> idx]

Result(s, em, r) == [dm |-> s, emitted |-> em, ret |-> r]

\* DataManager.__init__ (the csv files are the disk, not the object)
InitDM ==
    [dataframe |-> NoTable, csv_path |-> None, current_index |-> -1,
     total_audio_count |-> 0, total_duration |-> 0, csv_files |-> InitialCsvFiles]

DfEmpty(df) == Len(df.rows) = 0

IndexInRange(s) == 0 <= s.current_index /\ s.current_index < Len(s.dataframe.rows)

load_csv_assigned(s, df, file_path) ==
    [s EXCEPT !.dataframe = df, !.csv_path = file_path, !.current_index = 0]

load_csv(s, file_path) ==
    IF file_path = None THEN Result(s, <<>>, "False")
    ELSE IF s.csv_files[file_path].kind = "missing"
    THEN Result(s, <<Sig("error_occurred", -1)>>, "False")
    ELSE IF s.csv_files[file_path].kind = "garbled"
    THEN Result(s, <<Sig("error_occurred", -1)>>, "False")
    ELSE LET df0 == read_csv(s.csv_files[file_path]) IN
         IF ~(required_columns \subseteq df0.columns)
         THEN Result(s, <<Sig("error_occurred", -1)>>, "False")
         ELSE LET df == [df0 EXCEPT !.columns = @ \cup optional_columns]
                  s1 == load_csv_assigned(s, df, file_path)
                  s2 == [s1 EXCEPT !.total_audio_count = SumRecorded(df.rows)]
              IN IF DurationSumRaises(df.rows)
                 THEN Result(s2, <<Sig("error_occurred", -1)>>, "False")
                 ELSE Result([s2 EXCEPT !.total_duration = SumDuration(df.rows)],
                             <<Sig("data_loaded", -1)>> \o
                               (IF DfEmpty(df) THEN <<>> ELSE <<Sig("current_item_changed", 0)>>),
                             "True")

\* wok: whether DataFrame.to_csv succeeds (it raises on a locked or read-only file)
save_csv(s, file_path, wok) ==
    IF ~s.dataframe.loaded THEN Result(s, <<Sig("error_occurred", -1)>>, "False")
    ELSE LET save_path == IF file_path # None THEN file_path ELSE s.csv_path IN
         IF save_path = None THEN Result(s, <<Sig("error_occurred", -1)>>, "False")
         ELSE IF ~wok THEN Result(s, <<Sig("error_occurred", -1)>>, "False")
         ELSE Result([s EXCEPT !.csv_files[save_path] = to_csv(s.dataframe),
                               !.csv_path = save_path],
                     <<Sig("data_saved", -1)>>, "True")

\* the end test off by one: < len(dataframe) instead of < len(dataframe) - 1
next_item_offbyone(s) ==
    IF ~s.dataframe.loaded \/ DfEmpty(s.dataframe) THEN Result(s, <<>>, "False")
    ELSE IF s.current_index < Len(s.dataframe.rows)
    THEN Result([s EXCEPT !.current_index = @ + 1],
                <<Sig("current_item_changed", s.current_index + 1)>>, "True")
    ELSE Result(s, <<>>, "False")

next_item(s) ==
    IF ~s.dataframe.loaded \/ DfEmpty(s.dataframe) THEN Result(s, <<>>, "False")
    ELSE IF s.current_index < Len(s.dataframe.rows) - 1
    THEN Result([s EXCEPT !.current_index = @ + 1],
                <<Sig("current_item_changed", s.current_index + 1)>>, "True")
    ELSE Result(s, <<>>, "False")

previous_item(s) ==
    IF ~s.dataframe.loaded \/ DfEmpty(s.dataframe) THEN Result(s, <<>>, "False")
    ELSE IF s.current_index > 0
    THEN Result([s EXCEPT !.current_index = @ - 1],
                <<Sig("current_item_changed", s.current_index - 1)>>, "True")
    ELSE Result(s, <<>>, "False")

\* matches = dataframe[dataframe['id'] == id_value].index ; matches[0]
Matches(df, id_value) == {i \in 0..(Len(df.rows) - 1) : df.rows[i + 1].id = id_value}

SetMin(S) == CHOOSE x \in S : \A y \in S : x <= y

jump_to_id(s, id_value) ==
    IF ~s.dataframe.loaded \/ DfEmpty(s.dataframe) THEN Result(s, <<>>, "False")
    ELSE IF Matches(s.dataframe, id_value) # {}
    THEN LET i == SetMin(Matches(s.dataframe, id_value)) IN
         Result([s EXCEPT !.current_index = i], <<Sig("current_item_changed", i)>>, "True")
    ELSE Result(s, <<Sig("error_occurred", -1)>>, "False")

\* for key, value in data_dict.items(): if key in dataframe.columns: dataframe.at[...] = value
ApplyDict(row, cols, d) ==
    [k \in DOMAIN row |-> IF k \in DOMAIN d /\ k \in cols THEN d[k] ELSE row[k]]

SetRow(s, d) ==
    [s EXCEPT !.dataframe.rows[s.current_index + 1] = ApplyDict(@, s.dataframe.columns, d)]

\* if self.csv_path: self.save_csv()   -- the result of save_csv is not looked at
SaveIfPath(s, wok) ==
    IF s.csv_path # None THEN save_csv(s, None, wok) ELSE Result(s, <<>>, "None")

\* the common body of update_current_item and register_recording
UpdateRowAndSave(s, d, wok) ==
    LET s1 == SetRow(s, d)
        s2 == [s1 EXCEPT !.total_audio_count = SumRecorded(s1.dataframe.rows)]
    IN IF DurationSumRaises(s2.dataframe.rows)
       THEN Result(s2, <<>>, "raise")
       ELSE LET s3 == [s2 EXCEPT !.total_duration = SumDuration(s2.dataframe.rows)]
                sv == SaveIfPath(s3, wok)
            IN Result(sv.dm, sv.emitted, "True")

update_current_item(s, data_dict, wok) ==
    IF ~s.dataframe.loaded \/ DfEmpty(s.dataframe) THEN Result(s, <<>>, "False")
    ELSE IF IndexInRange(s) THEN UpdateRowAndSave(s, data_dict, wok)
    ELSE Result(s, <<>>, "False")

register_recording(s, path_48k, path_8k, duration, wok) ==
    IF ~s.dataframe.loaded \/ DfEmpty(s.dataframe) THEN Result(s, <<>>, "False")
    ELSE IF IndexInRange(s)
    THEN UpdateRowAndSave(s, [recorded |-> TRUE, audio_path_48k |-> path_48k,
                              audio_path_8k |-> path_8k, duration |-> duration,
                              trimmed |-> FALSE], wok)
    ELSE Result(s, <<>>, "False")

\* has_duration = FALSE stands for new_duration = None
update_trim_status(s, is_trimmed, has_duration, new_duration, wok) ==
    IF ~s.dataframe.loaded \/ DfEmpty(s.dataframe) THEN Result(s, <<>>, "False")
    ELSE IF IndexInRange(s)
    THEN LET s1 == [s EXCEPT !.dataframe.rows[s.current_index + 1].trimmed = is_trimmed]
             old_duration == s.dataframe.rows[s.current_index + 1].duration
             s2 == [s1 EXCEPT !.dataframe.rows[s.current_index + 1].duration = new_duration]
         IN IF ~has_duration
            THEN LET sv == SaveIfPath(s1, wok) IN Result(sv.dm, sv.emitted, "True")
            ELSE IF old_duration = BadCell
            THEN Result(s2, <<>>, "raise")
            ELSE LET s3 == [s2 EXCEPT !.total_duration = @ - old_duration + new_duration]
                     sv == SaveIfPath(s3, wok)
                 IN Result(sv.dm, sv.emitted, "True")
    ELSE Result(s, <<>>, "False")

\* ========================================================================
\* core/audio_recorder.py : AudioRecorder, RecorderThread
\* ========================================================================
MaxFrames == 2

MaxThreads == 2

\* what one stream callback delivers: a block of audio (one sample, in hundredths)
CallbackSamples == {50}

\* filename_48k / filename_8k before the first start_recording (the attribute
\* does not exist) and when set to None
UnsetPath == Path(-3, 0, 0)

NonePath == Path(-4, 0, 0)

\* The recorder as MainWindow.__init__ leaves it: constructed, then
\* apply_settings (which sets subtype).
InitRecorder ==
    [is_recording |-> FALSE, recording_thread |-> 0,
     frames_48k |-> <<>>, frames_8k |-> <<>>,
     device_8k_set |-> FALSE,
     filename_48k |-> UnsetPath, filename_8k |-> UnsetPath,
     last_recording_duration |-> 0, enable_8k |-> FALSE]

\* a RecorderThread: pc is "none" (not created), "started", "streaming", "done"
NoThread == [pc |-> "none", has_8k |-> FALSE]

InitThreads == [t \in 1..MaxThreads |-> NoThread]

WavPaths == {Path(d, r, i) : d \in 0..MaxDirs, r \in {48, 8}, i \in 1..NumRows}

\* an audio file on disk: its samples, or absent
NoFile == [exists |-> FALSE, samples |-> <<>>]

WavFile(samples) == [exists |-> TRUE, samples |-> samples]

\* the recording that full.csv refers to
OldSamples == <<0, 50, 0>>

\* the audio files on disk before the program starts
InitWavs == [p \in WavPaths |-> IF p \in {Wav48, Wav8} THEN WavFile(OldSamples) ELSE NoFile]

\* what the current recording's own streams have delivered (history only)
InitDelivered == [enabled_at_start |-> FALSE, d48 |-> FALSE, d8 |-> FALSE]

Truthy(path) == path \notin {UnsetPath, NonePath, EmptyPath}

\* _save_wav: returns the duration (in samples) or 0.0; wok = FALSE
\* is sf.write raising, which is caught and reported through error_occurred
save_wav(w, filepath, frames, wok) ==
    IF frames = <<>> THEN [wavs |-> w, events |-> <<>>, duration |-> 0]
    ELSE IF ~wok THEN [wavs |-> w, events |-> <<Sig("error_occurred", -1)>>, duration |-> 0]
    ELSE [wavs |-> [w EXCEPT ![filepath] = WavFile(frames)],
          events |-> <<[sig |-> "file_written", idx |-> filepath.rate]>>,
          duration |-> Len(frames)]

\* the two saves of stop_recording, lines 190-198
SaveBoth(r, w, wok48, wok8) ==
    LET s48 == IF Truthy(r.filename_48k) /\ r.frames_48k # <<>>
               THEN save_wav(w, r.filename_48k, r.frames_48k, wok48)
               ELSE [wavs |-> w, events |-> <<>>, duration |-> 0]
        saved48 == Truthy(r.filename_48k) /\ r.frames_48k # <<>>
        s8  == IF Truthy(r.filename_8k) /\ r.frames_8k # <<>>
               THEN save_wav(s48.wavs, r.filename_8k, r.frames_8k, wok8)
               ELSE [wavs |-> s48.wavs, events |-> <<>>, duration |-> 0]
    IN [wavs |-> s8.wavs, events |-> s48.events \o s8.events, duration |-> s48.duration,
        last |-> IF saved48 THEN s48.duration ELSE r.last_recording_duration]

\* the 8 kHz file name dropped although 8 kHz recording is enabled
start_recording_fields_no8kname(r, filename_48k, filename_8k, t) ==
    LET r1 == [r EXCEPT !.frames_48k = <<>>, !.filename_48k = filename_48k]
        r2 == IF r.enable_8k
              THEN [r1 EXCEPT !.device_8k_set = TRUE, !.frames_8k = <<>>, !.filename_8k = NonePath]
              ELSE [r1 EXCEPT !.device_8k_set = FALSE, !.filename_8k = NonePath]
    IN [r2 EXCEPT !.is_recording = TRUE, !.recording_thread = t]

\* start_recording, lines 159-173, on the recorder object
start_recording_fields(r, filename_48k, filename_8k, t) ==
    LET r1 == [r EXCEPT !.frames_48k = <<>>, !.filename_48k = filename_48k]
        r2 == IF r.enable_8k
              THEN [r1 EXCEPT !.device_8k_set = TRUE, !.frames_8k = <<>>, !.filename_8k = filename_8k]
              ELSE [r1 EXCEPT !.device_8k_set = FALSE, !.filename_8k = NonePath]
    IN [r2 EXCEPT !.is_recording = TRUE, !.recording_thread = t]

\* ========================================================================
\* ui/main_window.py : MainWindow
\* ========================================================================
NoDir == -1

Combos == {"language", "style", "speaker"}

\* MainWindow.__init__: no session, panel controls disabled, indicator off.
\* A combo box is at index 0 ("Select ...") or at a value (1); text_id 0 is
\* the empty ID field; pending_next counts the armed QTimer.singleShot calls.
InitMW ==
    [output_dir |-> NoDir, controls_enabled |-> FALSE, submit_enabled |-> TRUE,
     indicator |-> "off", text_id |-> 0, is_uploaded |-> FALSE,
     combos |-> [c \in Combos |-> 0], combo_items |-> TRUE, pending_next |-> 0]

\* the directories on disk: session directories by suffix number, and which
\* of them have the 48khz / 8khz subdirectory
InitFS(existing) == [exists |-> {0} \cup existing, sub48 |-> {0}, sub8 |-> {0}]

\* recorder settings used by trimming (audio_recorder.py apply_settings)
silence_threshold_db == -40

padding_ms == 100

rate_48k == 48000

\* get_current_item: the row, or no row
HasCurrentItem(d) == d.dataframe.loaded /\ ~DfEmpty(d.dataframe) /\ IndexInRange(d)

CurrentRow(d) == d.dataframe.rows[d.current_index + 1]

\* item.get(column, default) on a row of the table
RowUploaded(d, row) == "uploaded" \in d.dataframe.columns /\ row.uploaded

RowRecorded(d, row) == "recorded" \in d.dataframe.columns /\ row.recorded

\* os.path.exists on an audio path cell
WavExists(w, path) == path \in DOMAIN w /\ w[path].exists

\* update_ui_with_item with a row, lines 883-947
update_ui_with_item(m, d, row) ==
    [m EXCEPT !.text_id = row.id,
              !.combos = IF MetaColumns \subseteq d.dataframe.columns
                         THEN [c \in Combos |-> 1] ELSE @,
              !.is_uploaded = RowUploaded(d, row),
              !.indicator = IF RowUploaded(d, row) \/ RowRecorded(d, row) THEN "green" ELSE "off"]

\* update_ui_with_item(None), lines 949-961
update_ui_with_none(m) ==
    [m EXCEPT !.text_id = 0, !.is_uploaded = FALSE, !.indicator = "off"]

\* on_data_loaded: the combo boxes are refilled from the table's metadata
\* columns; a selection whose text is no longer an item falls back to index 0
on_data_loaded(m, d) ==
    LET m1 == IF MetaColumns \subseteq d.dataframe.columns
              THEN [m EXCEPT !.combo_items = TRUE]
              ELSE [m EXCEPT !.combo_items = FALSE, !.combos = [c \in Combos |-> 0]]
    IN IF DfEmpty(d.dataframe) THEN update_ui_with_none(m1) ELSE m1

\* the slots connected to the DataManager signals (connect_signals 320-322)
Slot(m, d, e) ==
    CASE e.sig = "data_loaded" -> on_data_loaded(m, d)
      [] e.sig = "current_item_changed" -> update_ui_with_item(m, d, d.dataframe.rows[e.idx + 1])
      [] OTHER -> m

RECURSIVE ApplySlots(_, _, _)
ApplySlots(m, d, em) ==
    IF em = <<>> THEN m ELSE ApplySlots(Slot(m, d, Head(em)), d, Tail(em))

\* _set_ui_busy: enable_controls(not busy)
set_ui_busy(m, busy) == [m EXCEPT !.controls_enabled = ~busy]

\* the probe for a free name left out: the base name is taken as it is
ProbeFree_reuse(exists, n) == n

\* while os.path.exists(self.output_dir): ... counter += 1  (lines 412-416)
RECURSIVE ProbeFree(_, _)
ProbeFree(exists, n) == IF n \in exists THEN ProbeFree(exists, n + 1) ELSE n

\* the three os.makedirs of initialize_recording; fail_at = k: the k-th raises
MakeSessionDirs(f, dir, fail_at) ==
    [f EXCEPT !.exists = IF fail_at = 1 THEN @ ELSE @ \cup {dir},
              !.sub48  = IF fail_at \in {1, 2} THEN @ ELSE @ \cup {dir},
              !.sub8   = IF fail_at \in {1, 2, 3} THEN @ ELSE @ \cup {dir}]

\* initialize_recording after the combo check, lines 404-432
initialize_recording(m, f, fail_at) ==
    LET dir == ProbeFree(f.exists, 0)
        m1  == [m EXCEPT !.output_dir = dir]
    IN IF fail_at = 0
       THEN [mw |-> [m1 EXCEPT !.controls_enabled = TRUE, !.submit_enabled = FALSE,
                               !.indicator = "off"],
             fs |-> MakeSessionDirs(f, dir, 0),
             events |-> <<Sig("information", -1)>>]
       ELSE [mw |-> [m1 EXCEPT !.indicator = "off"],
             fs |-> MakeSessionDirs(f, dir, fail_at),
             events |-> <<Sig("show_error", -1)>>]

\* _trim_single_file: the module never imports soundfile (sf) or numpy (np),
\* so sf.read raises NameError, which the except branch turns into
\* (False, 0.0, message); the file is not touched
trim_single_file(w, path) == [success |-> FALSE, duration |-> 0, wavs |-> w]

\* on_recording_stopped, lines 505-551 (auto upload is off by default)
on_recording_stopped(m, d, r, w, duration, wokcsv) ==
    IF m.text_id = 0
    THEN [mw |-> [m EXCEPT !.indicator = "off"], dm |-> d, events |-> <<>>, raised |-> FALSE]
    ELSE LET final_48k == IF Truthy(r.filename_48k) /\ WavExists(w, r.filename_48k)
                          THEN r.filename_48k ELSE EmptyPath
             final_8k  == IF r.enable_8k /\ Truthy(r.filename_8k) /\ WavExists(w, r.filename_8k)
                          THEN r.filename_8k ELSE EmptyPath
         IN IF duration > 0 /\ final_48k # EmptyPath
            THEN LET rr == register_recording(d, final_48k, final_8k, duration, wokcsv) IN
                 IF rr.ret = "raise"
                 THEN [mw |-> m, dm |-> rr.dm, events |-> rr.emitted, raised |-> TRUE]
                 ELSE [mw |-> [m EXCEPT !.is_uploaded = FALSE, !.indicator = "green"],
                       dm |-> rr.dm, events |-> rr.emitted, raised |-> FALSE]
            ELSE [mw |-> [m EXCEPT !.indicator = "off"], dm |-> d,
                  events |-> <<Sig("show_error", -1)>>, raised |-> FALSE]

\* ========================================================================
\* AudioPlayer and PlaybackWorker (src/core/audio_player.py, playback_worker.py)
\* Time is counted in milliseconds and a sample rate in samples per
\* millisecond (48000 Hz is 48), so int(seconds * sample_rate) is ms * rate
\* and samples / sample_rate is samples \div rate.
\* ========================================================================
NumChunks == 2

MaxWorkers == 2

MaxPlayerCalls == 5

ChunkMs == 100

assumed_primary_rate == 48

assumed_secondary_rate == 8

TrackMs == NumChunks * ChunkMs

\* audio_data is None
NoAudio == [id |-> "None", len |-> 0]

\* what sf.read returns for the files the player can be given: the samples
\* and the sample rate of the primary file, the samples of the secondary one
AudioFiles ==
    { [data |-> [id |-> "rec48", len |-> TrackMs * 48], samplerate |-> 48,
       secondary |-> [id |-> "rec8", len |-> TrackMs * 8]],
      [data |-> [id |-> "solo48", len |-> TrackMs * 48], samplerate |-> 48,
       secondary |-> NoAudio] }

SeekMs == {50, TrackMs + ChunkMs}

\* AudioPlayer.__init__; main is where the main thread stands inside a
\* handler that waits for the playback thread, saved_pos is current_pos of
\* toggle_sample_rate, alive is FALSE once the process was aborted;
\* history: seek_request is the seek a worker has still to read, toggle_call
\* and toggle_worker are the call count and the worker of the last toggle
InitPlayer ==
    [is_playing |-> FALSE, is_paused |-> FALSE, current_position |-> 0,
     duration |-> 0, sample_rate |-> 48, playback_thread |-> 0,
     audio_data |-> NoAudio, audio_data_8k |-> NoAudio, seek_position |-> -1,
     main |-> "idle", saved_pos |-> -1, alive |-> TRUE,
     seek_request |-> -1, toggle_call |-> -1, toggle_worker |-> 0]

\* a playback thread with its PlaybackWorker; pc none: not created
NoWorker ==
    [pc |-> "none", audio_len |-> 0, sample_rate |-> 0, current_sample |-> 0,
     seek_seconds |-> -1, quit |-> FALSE, sigs |-> <<>>, chunk_start |-> -1]

InitWorkers == [i \in 1..MaxWorkers |-> NoWorker]

PState(p, w, em, r) == [player |-> p, workers |-> w, emitted |-> em, ret |-> r]

\* PlaybackWorker.run has been started and has not returned
WorkerRunning(wk) == wk.pc \in {"started", "loop", "seek"}

\* QThread.isRunning: the thread ends when run has returned and quit was asked
isRunning(wk) == WorkerRunning(wk) \/ (wk.pc = "done" /\ ~wk.quit)

FreeWorkers(w) == {i \in 1..MaxWorkers : w[i].pc = "none"}

\* AudioPlayer.load_audio_file for a file that exists and can be read
load_audio_file(p, f) ==
    [p EXCEPT !.sample_rate = f.samplerate, !.audio_data = f.data,
              !.duration = f.data.len \div f.samplerate,
              !.current_position = 0, !.audio_data_8k = f.secondary]

\* AudioPlayer.resume
resume(p) ==
    IF ~p.is_playing \/ ~p.is_paused
    THEN [player |-> p, emitted |-> <<>>]
    ELSE [player |-> [p EXCEPT !.is_paused = FALSE],
          emitted |-> <<Sig("playback_resumed", 0)>>]

\* PlaybackWorker.__init__ as called by play
NewWorker(p) ==
    [NoWorker EXCEPT !.pc = "started", !.audio_len = p.audio_data.len,
                     !.sample_rate = p.sample_rate,
                     !.current_sample = p.current_position * p.sample_rate]

\* play reaches line 126 and creates a thread and a worker
PlayStarts(p) == p.audio_data # NoAudio /\ ~p.is_paused /\ ~p.is_playing

\* AudioPlayer.play(); n is the new worker. Line 131 drops the last reference
\* to the previous QThread object: Qt aborts the process when a QThread is
\* destroyed while its thread is running (crash).
play(p, w, n, crash) ==
    IF p.audio_data = NoAudio
    THEN PState(p, w, <<Sig("error_occurred", 0)>>, "False")
    ELSE IF p.is_paused
    THEN PState(resume(p).player, w, resume(p).emitted, None)
    ELSE IF p.is_playing
    THEN PState(p, w, <<>>, "True")
    ELSE LET q == [p EXCEPT !.is_playing = TRUE, !.is_paused = FALSE,
                            !.seek_position = -1, !.seek_request = -1]
         IN IF crash /\ p.playback_thread # 0 /\ isRunning(w[p.playback_thread])
            THEN PState([q EXCEPT !.alive = FALSE], w, <<>>, None)
            ELSE PState([q EXCEPT !.playback_thread = n],
                        [w EXCEPT ![n] = NewWorker(p)],
                        <<Sig("playback_started", 0)>>, "True")

\* AudioPlayer.pause
pause(p) ==
    IF ~p.is_playing \/ p.is_paused
    THEN [player |-> p, emitted |-> <<>>]
    ELSE [player |-> [p EXCEPT !.is_paused = TRUE],
          emitted |-> <<Sig("playback_paused", 0)>>]

\* AudioPlayer.seek
seek(p, position_seconds) ==
    IF p.audio_data = NoAudio
    THEN [player |-> p, emitted |-> <<>>]
    ELSE LET pos == Max2(0, Min2(position_seconds, p.duration))
             q == [p EXCEPT !.current_position = pos]
         IN [player |-> IF p.is_playing /\ ~p.is_paused
                        THEN [q EXCEPT !.seek_position = pos]
                        ELSE q,
             emitted |-> <<Sig("position_changed", pos)>>]

\* AudioPlayer.stop, lines 203-210: up to the wait for the playback thread;
\* main = tag while the wait lasts
stop_begin(p, w, tag) ==
    LET t == p.playback_thread
        q == [p EXCEPT !.is_playing = FALSE, !.is_paused = FALSE]
    IN IF t # 0 /\ isRunning(w[t])
       THEN [player |-> IF WorkerRunning(w[t]) THEN [q EXCEPT !.main = tag] ELSE q,
             workers |-> [w EXCEPT ![t].quit = TRUE]]
       ELSE [player |-> q, workers |-> w]

\* AudioPlayer.stop, lines 213-215
stop_end(p) ==
    [player |-> [p EXCEPT !.current_position = 0, !.main = "idle"],
     emitted |-> <<Sig("position_changed", 0), Sig("playback_stopped", 0)>>]

\* AudioPlayer.toggle_sample_rate, lines 366-400, after stop() has returned
toggle_rest(p, w, n, crash) ==
    LET s == stop_end(p)
        a == s.player
        swapped == [a EXCEPT !.audio_data = a.audio_data_8k,
                             !.audio_data_8k = a.audio_data]
        b == IF a.sample_rate = assumed_primary_rate
             THEN [swapped EXCEPT !.sample_rate = assumed_secondary_rate]
             ELSE [swapped EXCEPT !.sample_rate = assumed_primary_rate]
        c == [b EXCEPT !.duration = b.audio_data.len \div b.sample_rate,
                       !.saved_pos = -1]
        k == seek(c, a.saved_pos)
        r == play(k.player, w, n, crash)
    IN IF a.sample_rate \notin {assumed_primary_rate, assumed_secondary_rate}
       THEN PState([a EXCEPT !.saved_pos = -1], w, s.emitted, None)
       ELSE PState(r.player, r.workers,
                   s.emitted \o <<Sig("duration_changed", c.duration)>> \o k.emitted
                       \o r.emitted, None)

\* AudioPlayer._playback_finished, lines 180-188: up to the wait
playback_finished_begin(p, w) ==
    LET t == p.playback_thread
        q == [p EXCEPT !.is_playing = FALSE, !.current_position = 0]
    IN IF t = 0
       THEN [player |-> q, workers |-> w]
       ELSE [player |-> IF WorkerRunning(w[t])
                        THEN [q EXCEPT !.main = "finished"]
                        ELSE [q EXCEPT !.playback_thread = 0],
             workers |-> [w EXCEPT ![t].quit = TRUE]]

\* AudioPlayer._playback_finished, lines 188-191: the wait has returned; line
\* 190 drops the QThread object, which aborts when it is still running (crash)
playback_finished_end(p, w, crash) ==
    IF crash /\ isRunning(w[p.playback_thread])
    THEN [p EXCEPT !.alive = FALSE, !.main = "idle"]
    ELSE [p EXCEPT !.playback_thread = 0, !.main = "idle"]

\* ========================================================================
\* AppConfig (src/utils/config.py)
\* ========================================================================
MaxConfigCalls == 3

\* AppConfig.DEFAULT_CONFIG as the class body writes it (two sections with
\* two keys and two with one are kept); every value is shown as its text
DEFAULT_CONFIG ==
    [audio |-> [sample_rate_high |-> "48000", use_asio |-> "True"],
     paths |-> [base_dir |-> "data"],
     ui    |-> [dark_mode |-> "False", trim_padding_ms |-> "100"],
     data  |-> [auto_save |-> "True"]]

\* The dict objects: heap holds the inner dicts, one object per section,
\* created once by the class body; class_default and instance are the outer
\* dicts AppConfig.DEFAULT_CONFIG and self.config, which hold references to
\* inner dicts. stored is the QSettings entry "config" (json text).
NoStored == [present |-> FALSE, value |-> DEFAULT_CONFIG]

InitConfig ==
    [heap |-> DEFAULT_CONFIG,
     class_default |-> [s \in DOMAIN DEFAULT_CONFIG |-> s],
     instance |-> [s \in DOMAIN DEFAULT_CONFIG |-> s],
     stored |-> NoStored]

\* AppConfig.get
ConfigGet(c, section, key) ==
    IF section \in DOMAIN c.instance /\ key \in DOMAIN c.heap[c.instance[section]]
    THEN c.heap[c.instance[section]][key]
    ELSE None

\* AppConfig.save_config: json.dumps(self.config) follows the references
save_config(c) ==
    [c EXCEPT !.stored = [present |-> TRUE,
                          value |-> [s \in DOMAIN c.instance |-> c.heap[c.instance[s]]]]]

\* AppConfig.set: the assignment goes to the inner dict object
ConfigSet(c, section, key, value) ==
    IF section \in DOMAIN c.instance
    THEN save_config([c EXCEPT !.heap[c.instance[section]] =
             [k \in DOMAIN @ \cup {key} |-> IF k = key THEN value ELSE @[k]]])
    ELSE c

\* AppConfig.reset_to_defaults: dict.copy() copies the outer dict only, the
\* new outer dict refers to the same inner dict objects
reset_to_defaults(c) == save_config([c EXCEPT !.instance = c.class_default])

\* AppConfig.__init__: the copy of line 52, then load_config with
\* _update_dict_recursive, which overwrites the keys that exist
AppConfig_init(c) ==
    LET d == [c EXCEPT !.instance = c.class_default]
    IN IF ~c.stored.present THEN d
       ELSE [d EXCEPT !.heap =
                [r \in DOMAIN @ |->
                    [k \in DOMAIN @[r] |->
                        IF k \in DOMAIN c.stored.value[r] THEN c.stored.value[r][k]
                        ELSE @[r][k]]]]

\* ------------------------------------------------------------------------
\* State
\* ------------------------------------------------------------------------
VARIABLES
    t_in, t_out,          \* trim_silence_numpy: the call's arguments and result
    dm,                   \* the DataManager object and the CSV files on disk
    mw, fs,               \* the MainWindow object and the directories on disk
    rec, threads,         \* the AudioRecorder object and its recorder threads
    wavs,                 \* the audio files on disk
    delivered,            \* history: what the current recording's streams delivered
    player, workers,      \* the AudioPlayer object and its playback workers
    events,               \* the main thread's queue of signals not yet delivered
    config,               \* the AppConfig object
    op, ret, emitted,     \* the last call, what it returned, the signals it emitted
    calls                 \* how many calls were made so far

vars == <<t_in, t_out, dm, mw, fs, rec, threads, wavs, delivered, player, workers, events,
          config, op, ret, emitted, calls>>

mwVars == <<mw, fs>>

recVars == <<rec, threads, wavs, delivered>>

trimVars == <<t_in, t_out>>

plVars == <<player, workers, events, config>>

NoTrimOut == [done |-> FALSE, audio |-> <<>>, duration |-> <<0, 1>>]

TrimInputs ==
    { [audio |-> a, dtype |-> d, sample_rate |-> r, threshold_db |-> t, padding_ms |-> p] :
        a \in SeqsUpTo(FloatSamples, MaxLen) \cup SeqsUpTo(Int16Samples, MaxLen),
        d \in {"float", "int16"}, r \in SampleRates, t \in ThresholdDbs, p \in PaddingMs }

WellTyped(x) ==
    \A i \in 1..Len(x.audio) :
       x.audio[i] \in (IF x.dtype = "int16" THEN Int16Samples ELSE FloatSamples)

NoTrimIn ==
    [audio |-> <<>>, dtype |-> "float", sample_rate |-> 1000, threshold_db |-> -40, padding_ms |-> 0]

InitRest ==
    /\ dm = InitDM
    /\ mw = InitMW
    /\ rec = InitRecorder
    /\ threads = InitThreads
    /\ wavs = InitWavs
    /\ delivered = InitDelivered
    /\ player = InitPlayer
    /\ workers = InitWorkers
    /\ events = <<>>
    /\ config = InitConfig
    /\ op = "init"
    /\ ret = None
    /\ emitted = <<>>
    /\ calls = 0

Init ==
    /\ t_in = NoTrimIn
    /\ t_out = NoTrimOut
    /\ fs = InitFS({})
    /\ InitRest

\* ------------------------------------------------------------------------
\* Specification of trim_silence_numpy on every input within the bounds
\* ------------------------------------------------------------------------
InitTrim ==
    /\ t_in \in {x \in TrimInputs : WellTyped(x)}
    /\ t_out = NoTrimOut
    /\ fs = InitFS({})
    /\ InitRest

CallTrim ==
    /\ ~t_out.done
    /\ LET r == trim_silence_numpy(t_in.audio, t_in.dtype, t_in.sample_rate,
                                   t_in.threshold_db, t_in.padding_ms)
       IN t_out' = [done |-> TRUE, audio |-> r.audio, duration |-> r.duration]
    /\ op' = "trim_silence_numpy"
    /\ UNCHANGED <<t_in, dm, mwVars, recVars, plVars, ret, emitted, calls>>

NextTrim == CallTrim

SpecTrim == InitTrim /\ [][NextTrim]_vars

\* ------------------------------------------------------------------------
\* Specification of the DataManager API called directly
\* ------------------------------------------------------------------------
Call(name, r) ==
    /\ calls < MaxCalls
    /\ calls' = calls + 1
    /\ dm' = r.dm
    /\ op' = name
    /\ ret' = r.ret
    /\ emitted' = r.emitted
    /\ UNCHANGED <<trimVars, mwVars, recVars, plVars>>

DM_load_csv == \E p \in CsvPaths \cup {None} : Call("load_csv", load_csv(dm, p))

DM_save_csv == \E p \in {None, "new.csv"}, wok \in BOOLEAN : Call("save_csv", save_csv(dm, p, wok))

DM_next_item == Call("next_item", next_item(dm))

DM_previous_item == Call("previous_item", previous_item(dm))

DM_jump_to_id == \E i \in 1..(NumRows + 1) : Call("jump_to_id", jump_to_id(dm, i))

UpdateDicts ==
    {[uploaded |-> TRUE], [trimmed |-> FALSE]}
    \cup {[duration |-> x, trimmed |-> TRUE] : x \in 1..MaxDur}

DM_update_current_item ==
    \E d \in UpdateDicts, wok \in BOOLEAN :
        Call("update_current_item", update_current_item(dm, d, wok))

DM_register_recording ==
    \E p8 \in {EmptyPath, Wav8}, d \in 1..MaxDur, wok \in BOOLEAN :
        Call("register_recording", register_recording(dm, Wav48, p8, d, wok))

DM_update_trim_status ==
    \E b \in BOOLEAN, h \in BOOLEAN, d \in 1..MaxDur, wok \in BOOLEAN :
        Call("update_trim_status", update_trim_status(dm, b, h, d, wok))

NextDM ==
    \/ DM_load_csv
    \/ DM_save_csv
    \/ DM_next_item
    \/ DM_previous_item
    \/ DM_jump_to_id
    \/ DM_update_current_item
    \/ DM_register_recording
    \/ DM_update_trim_status

SpecDM == Init /\ [][NextDM]_vars

\* ------------------------------------------------------------------------
\* Specification of the AudioRecorder with its threads and stream callbacks
\* ------------------------------------------------------------------------
RecStep(name, em) ==
    /\ op' = name
    /\ ret' = None
    /\ emitted' = em
    /\ UNCHANGED <<trimVars, dm, mwVars, plVars>>

RecCall(name, em) ==
    /\ calls < MaxMWCalls
    /\ calls' = calls + 1
    /\ RecStep(name, em)

\* MainWindow.update_ui_for_8k_toggle: the checkbox sets recorder.enable_8k
REC_set_enable_8k ==
    \E b \in BOOLEAN :
        /\ b # rec.enable_8k
        /\ rec' = [rec EXCEPT !.enable_8k = b]
        /\ UNCHANGED <<threads, wavs, delivered>>
        /\ RecCall("set_enable_8k", <<>>)

FreeThreads == {t \in 1..MaxThreads : threads[t].pc = "none"}

REC_start_recording ==
    IF rec.is_recording
    THEN /\ UNCHANGED recVars
         /\ RecCall("start_recording", <<>>)
    ELSE /\ FreeThreads # {}
         /\ LET t == SetMin(FreeThreads) IN
            /\ rec' = start_recording_fields(rec, Wav48, Wav8, t)
            /\ threads' = [threads EXCEPT ![t] = [pc |-> "started", has_8k |-> FALSE]]
         /\ delivered' = [enabled_at_start |-> rec.enable_8k, d48 |-> FALSE, d8 |-> FALSE]
         /\ UNCHANGED wavs
         /\ RecCall("start_recording", <<Sig("recording_started", -1)>>)

ThreadRunning(t) == t # 0 /\ threads[t].pc \in {"started", "streaming"}

\* joined: recording_thread.wait(1000) returned because the thread ended;
\* otherwise the wait timed out and the thread goes on
REC_stop_recording ==
    IF ~rec.is_recording
    THEN /\ UNCHANGED recVars
         /\ RecCall("stop_recording", <<>>)
    ELSE \E joined \in BOOLEAN, wok48 \in BOOLEAN, wok8 \in BOOLEAN :
         LET t  == rec.recording_thread
             sv == SaveBoth(rec, wavs, wok48, wok8)
         IN /\ threads' = IF ThreadRunning(t) /\ joined
                          THEN [threads EXCEPT ![t].pc = "done"]
                          ELSE threads
            /\ rec' = [rec EXCEPT !.is_recording = FALSE, !.last_recording_duration = sv.last]
            /\ wavs' = sv.wavs
            /\ UNCHANGED delivered
            /\ RecCall("stop_recording",
                       sv.events \o <<Sig("recording_stopped", sv.duration)>>)

\* _record_audio up to the with statement: the streams are created and
\* started; failing raises into the except branch, lines 242-246
THREAD_open_streams ==
    \E t \in 1..MaxThreads, ok \in BOOLEAN :
        /\ threads[t].pc = "started"
        /\ IF ok
           THEN /\ threads' = [threads EXCEPT ![t] =
                                 [pc |-> "streaming", has_8k |-> rec.enable_8k /\ rec.device_8k_set]]
                /\ UNCHANGED rec
                /\ RecStep("thread_open_streams", <<>>)
           ELSE /\ threads' = [threads EXCEPT ![t].pc = "done"]
                /\ rec' = [rec EXCEPT !.is_recording = FALSE]
                /\ RecStep("thread_open_streams", <<Sig("error_occurred", -1)>>)
        /\ UNCHANGED <<wavs, delivered, calls>>

\* the polling loop sees is_recording False, leaves the with block (which
\* stops and closes the streams) and run() returns
THREAD_exit_loop ==
    \E t \in 1..MaxThreads :
        /\ threads[t].pc = "streaming"
        /\ ~rec.is_recording
        /\ threads' = [threads EXCEPT ![t].pc = "done"]
        /\ UNCHANGED <<rec, wavs, delivered, calls>>
        /\ RecStep("thread_exit_loop", <<>>)

\* _callback_48k of an active 48 kHz stream
CALLBACK_48k ==
    \E t \in 1..MaxThreads, x \in CallbackSamples :
        /\ threads[t].pc = "streaming"
        /\ Len(rec.frames_48k) < MaxFrames
        /\ rec' = [rec EXCEPT !.frames_48k = Append(@, x)]
        /\ delivered' = IF t = rec.recording_thread /\ rec.is_recording
                        THEN [delivered EXCEPT !.d48 = TRUE] ELSE delivered
        /\ UNCHANGED <<threads, wavs, calls>>
        /\ RecStep("callback_48k", <<Sig("level_meter", -1)>>)

\* _callback_8k of an active 8 kHz stream
CALLBACK_8k ==
    \E t \in 1..MaxThreads, x \in CallbackSamples :
        /\ threads[t].pc = "streaming"
        /\ threads[t].has_8k
        /\ Len(rec.frames_8k) < MaxFrames
        /\ rec' = [rec EXCEPT !.frames_8k = Append(@, x)]
        /\ delivered' = IF t = rec.recording_thread /\ rec.is_recording
                        THEN [delivered EXCEPT !.d8 = TRUE] ELSE delivered
        /\ UNCHANGED <<threads, wavs, calls>>
        /\ RecStep("callback_8k", <<>>)

NextRec ==
    \/ REC_set_enable_8k
    \/ REC_start_recording
    \/ REC_stop_recording
    \/ THREAD_open_streams
    \/ THREAD_exit_loop
    \/ CALLBACK_48k
    \/ CALLBACK_8k

SpecRec == Init /\ [][NextRec]_vars

\* The recorder thread is a QThread of its own: the operating system keeps
\* scheduling it, so a step of it that stays possible is eventually taken.
SpecRecFair ==
    /\ Init
    /\ [][NextRec]_vars
    /\ WF_vars(THREAD_open_streams)
    /\ WF_vars(THREAD_exit_loop)

\* ------------------------------------------------------------------------
\* Specification of the MainWindow handlers
\* ------------------------------------------------------------------------
MWStep(name, r, em) ==
    /\ op' = name
    /\ ret' = r
    /\ emitted' = em
    /\ UNCHANGED <<trimVars, plVars>>

MWCall(name, r, em) ==
    /\ calls < MaxMWCalls
    /\ calls' = calls + 1
    /\ MWStep(name, r, em)

\* the paths the file dialog of load_csv can return
MWCsvPaths == {"min.csv", "full.csv", "saved.csv", "mixed.csv", "gone.csv"}

\* MainWindow.load_csv: DataManager.load_csv and the slots of its signals
MW_load_csv ==
    \E p \in MWCsvPaths :
        LET r == load_csv(dm, p) IN
        /\ dm' = r.dm
        /\ mw' = ApplySlots(mw, r.dm, r.emitted)
        /\ UNCHANGED <<fs, recVars>>
        /\ MWCall("load_csv", r.ret, r.emitted)

\* the user picks an entry of a combo box
MW_select_combo ==
    \E c \in Combos, v \in {0, 1} :
        /\ mw.combo_items
        /\ mw.combos[c] # v
        /\ mw' = [mw EXCEPT !.combos[c] = v]
        /\ UNCHANGED <<dm, fs, recVars, calls>>
        /\ MWStep("select_combo", None, <<>>)

\* update_ui_for_8k_toggle
MW_toggle_8k ==
    /\ rec' = [rec EXCEPT !.enable_8k = ~@]
    /\ UNCHANGED <<dm, mw, fs, threads, wavs, delivered>>
    /\ MWCall("update_ui_for_8k_toggle", None, <<>>)

\* initialize_recording (the submit button, disabled after a success)
MW_initialize_recording ==
    /\ mw.submit_enabled
    /\ IF \E c \in Combos : mw.combos[c] = 0
       THEN /\ UNCHANGED <<dm, mw, fs, recVars>>
            /\ MWCall("initialize_recording", None, <<Sig("warning", -1)>>)
       ELSE \E fail_at \in 0..3 :
            LET r == initialize_recording(mw, fs, fail_at) IN
            /\ ProbeFree(fs.exists, 0) <= MaxDirs
            /\ mw' = r.mw
            /\ fs' = r.fs
            /\ UNCHANGED <<dm, recVars>>
            /\ MWCall("initialize_recording", None, r.events)

\* MainWindow.start_recording, lines 441-477; mk_ok = FALSE: os.makedirs raises
MWStartRecording ==
    IF mw.output_dir = NoDir
    THEN /\ UNCHANGED <<dm, mw, fs, recVars>>
         /\ MWCall("start_recording", None, <<Sig("warning_not_initialized", -1)>>)
    ELSE IF ~HasCurrentItem(dm)
    THEN /\ UNCHANGED <<dm, mw, fs, recVars>>
         /\ MWCall("start_recording", None, <<Sig("show_error", -1)>>)
    ELSE \E mk_ok \in BOOLEAN :
         IF ~mk_ok
         THEN /\ UNCHANGED <<dm, mw, fs, recVars>>
              /\ MWCall("start_recording", "raise", <<>>)
         ELSE /\ FreeThreads # {}
              /\ LET t == SetMin(FreeThreads)
                     id == CurrentRow(dm).id
                 IN /\ rec' = start_recording_fields(rec, Path(mw.output_dir, 48, id),
                                                     Path(mw.output_dir, 8, id), t)
                    /\ threads' = [threads EXCEPT ![t] = [pc |-> "started", has_8k |-> FALSE]]
              /\ fs' = [fs EXCEPT !.exists = @ \cup {mw.output_dir},
                                  !.sub48 = @ \cup {mw.output_dir},
                                  !.sub8 = IF rec.enable_8k THEN @ \cup {mw.output_dir} ELSE @]
              /\ delivered' = [enabled_at_start |-> rec.enable_8k, d48 |-> FALSE, d8 |-> FALSE]
              /\ mw' = [mw EXCEPT !.indicator = "red"]
              /\ UNCHANGED <<dm, wavs>>
              /\ MWCall("start_recording", None, <<Sig("recording_started", -1)>>)

\* MainWindow.stop_recording, lines 479-496, with AudioRecorder.stop_recording
\* and the on_recording_stopped slot it triggers
MWStopRecording(name) ==
    IF ~rec.is_recording
    THEN /\ UNCHANGED <<dm, mw, fs, recVars>>
         /\ MWCall(name, None, <<>>)
    ELSE \E joined \in BOOLEAN, wok48 \in BOOLEAN, wok8 \in BOOLEAN, wokcsv \in BOOLEAN :
         LET t  == rec.recording_thread
             sv == SaveBoth(rec, wavs, wok48, wok8)
             o  == on_recording_stopped([mw EXCEPT !.indicator = "orange"], dm, rec,
                                        sv.wavs, sv.duration, wokcsv)
         IN /\ threads' = IF ThreadRunning(t) /\ joined
                          THEN [threads EXCEPT ![t].pc = "done"]
                          ELSE threads
            /\ rec' = [rec EXCEPT !.is_recording = FALSE, !.last_recording_duration = sv.last]
            /\ wavs' = sv.wavs
            /\ mw' = o.mw
            /\ dm' = o.dm
            /\ UNCHANGED <<fs, delivered>>
            /\ MWCall(name, IF o.raised THEN "raise" ELSE None,
                      sv.events \o <<Sig("recording_stopped", sv.duration)>> \o o.events)

\* handle_record_button_press (the record button and the '*' key)
MW_handle_record_button_press ==
    IF ~rec.is_recording THEN MWStartRecording ELSE MWStopRecording("stop_recording")

\* the space key, keyPressEvent lines 1033-1035 (and the stop button while
\* a recording runs)
MW_stop_recording ==
    /\ rec.is_recording
    /\ MWStopRecording("key_space")

\* next_sentence, lines 628-629, with the slot of current_item_changed
MW_next_sentence ==
    /\ dm' = next_item(dm).dm
    /\ mw' = ApplySlots(mw, next_item(dm).dm, next_item(dm).emitted)
    /\ UNCHANGED <<fs, recVars>>
    /\ MWCall("next_sentence", None, next_item(dm).emitted)

\* prev_sentence, lines 631-632
MW_prev_sentence ==
    /\ dm' = previous_item(dm).dm
    /\ mw' = ApplySlots(mw, previous_item(dm).dm, previous_item(dm).emitted)
    /\ UNCHANGED <<fs, recVars>>
    /\ MWCall("prev_sentence", None, previous_item(dm).emitted)

\* QTimer.singleShot(100, self.next_sentence) armed by a successful upload
TIMER_next_sentence ==
    /\ mw.pending_next > 0
    /\ LET r == next_item(dm) IN
       /\ dm' = r.dm
       /\ mw' = [ApplySlots(mw, r.dm, r.emitted) EXCEPT !.pending_next = @ - 1]
       /\ UNCHANGED <<fs, recVars, calls>>
       /\ MWStep("timer_next_sentence", None, r.emitted)

\* trim_audio, lines 650-693 (the trim button of the enabled panel)
MW_trim_audio ==
    /\ mw.controls_enabled
    /\ IF ~HasCurrentItem(dm)
       THEN /\ UNCHANGED <<dm, mw, fs, recVars>>
            /\ MWCall("trim_audio", None, <<Sig("show_error", -1)>>)
       ELSE LET item == CurrentRow(dm)
                p48  == item.audio_path_48k
                p8   == item.audio_path_8k
            IN IF p48 = NaN
               THEN /\ UNCHANGED <<dm, mw, fs, recVars>>
                    /\ MWCall("trim_audio", "raise", <<>>)
               ELSE IF p48 = EmptyPath \/ ~WavExists(wavs, p48)
               THEN /\ UNCHANGED <<dm, mw, fs, recVars>>
                    /\ MWCall("trim_audio", None, <<Sig("show_error", -1)>>)
               ELSE \E wok \in BOOLEAN :
                    LET t48 == trim_single_file(wavs, p48)
                        u   == IF t48.success
                               THEN update_current_item(dm, [duration |-> t48.duration,
                                                             trimmed |-> TRUE], wok)
                               ELSE update_current_item(dm, [trimmed |-> FALSE], wok)
                        ind == IF t48.success THEN "green" ELSE "off"
                        do8 == rec.enable_8k /\ p8 # NaN /\ Truthy(p8) /\ WavExists(t48.wavs, p8)
                        t8  == IF do8 THEN trim_single_file(t48.wavs, p8)
                               ELSE [success |-> TRUE, duration |-> 0, wavs |-> t48.wavs]
                        busy == <<Sig("set_ui_busy", -1)>>
                    IN IF u.ret = "raise"
                       THEN /\ dm' = u.dm
                            /\ mw' = [set_ui_busy(mw, TRUE) EXCEPT !.indicator = "orange"]
                            /\ wavs' = t48.wavs
                            /\ UNCHANGED <<fs, rec, threads, delivered>>
                            /\ MWCall("trim_audio", "raise", busy)
                       ELSE IF rec.enable_8k /\ p8 = NaN
                       THEN /\ dm' = u.dm
                            /\ mw' = [set_ui_busy(mw, TRUE) EXCEPT !.indicator = ind]
                            /\ wavs' = t48.wavs
                            /\ UNCHANGED <<fs, rec, threads, delivered>>
                            /\ MWCall("trim_audio", "raise", busy \o u.emitted)
                       ELSE /\ dm' = u.dm
                            /\ mw' = update_ui_with_item(set_ui_busy(mw, FALSE), u.dm, CurrentRow(u.dm))
                            /\ wavs' = t8.wavs
                            /\ UNCHANGED <<fs, rec, threads, delivered>>
                            /\ MWCall("trim_audio", None,
                                      busy \o u.emitted \o
                                      (IF t8.success THEN <<>> ELSE <<Sig("show_error", -1)>>))

UploadOutcomes == {"ok", "http_error", "network_error", "exception"}

\* upload_recording, lines 738-814 (the upload button and Ctrl+S); outcome is
\* what requests.post does
MW_upload_recording ==
    IF ~HasCurrentItem(dm)
    THEN /\ UNCHANGED <<dm, mw, fs, recVars>>
         /\ MWCall("upload_recording", "False", <<Sig("show_error", -1)>>)
    ELSE LET item == CurrentRow(dm)
             p48  == item.audio_path_48k
             p8   == item.audio_path_8k
             busy == <<Sig("set_ui_busy", -1)>>
             fail == [set_ui_busy(mw, FALSE) EXCEPT !.indicator = "orange"]
         IN IF p48 = NaN
            THEN /\ UNCHANGED <<dm, mw, fs, recVars>>
                 /\ MWCall("upload_recording", "raise", <<>>)
            ELSE IF p48 = EmptyPath \/ ~WavExists(wavs, p48)
            THEN /\ UNCHANGED <<dm, mw, fs, recVars>>
                 /\ MWCall("upload_recording", "False", <<Sig("show_error", -1)>>)
            ELSE \E outcome \in UploadOutcomes, wok \in BOOLEAN :
                 LET u == update_current_item(dm, [uploaded |-> TRUE], wok) IN
                 IF outcome = "ok" /\ ~(rec.enable_8k /\ p8 = NaN)
                 THEN IF u.ret = "raise"
                      THEN /\ dm' = u.dm
                           /\ mw' = fail
                           /\ UNCHANGED <<fs, recVars>>
                           /\ MWCall("upload_recording", "False",
                                     busy \o <<Sig("show_error", -1)>>)
                      ELSE /\ dm' = u.dm
                           /\ mw' = [set_ui_busy(mw, FALSE) EXCEPT
                                       !.is_uploaded = TRUE, !.indicator = "green",
                                       !.pending_next = @ + 1]
                           /\ UNCHANGED <<fs, recVars>>
                           /\ MWCall("upload_recording", "True", busy \o u.emitted)
                 ELSE /\ mw' = fail
                      /\ UNCHANGED <<dm, fs, recVars>>
                      /\ MWCall("upload_recording", "False", busy \o <<Sig("show_error", -1)>>)

\* The session handlers: loading, the dropdowns, initialisation and recording
NextSession ==
    \/ MW_load_csv
    \/ MW_select_combo
    \/ MW_toggle_8k
    \/ MW_initialize_recording
    \/ MW_handle_record_button_press
    \/ MW_stop_recording
    \/ THREAD_open_streams
    \/ THREAD_exit_loop
    \/ CALLBACK_48k
    \/ CALLBACK_8k

InitSession ==
    /\ t_in = NoTrimIn
    /\ t_out = NoTrimOut
    /\ fs \in {InitFS(X) : X \in (SUBSET (1..MaxDirs)) \ {1..MaxDirs}}
    /\ InitRest

SpecSession == InitSession /\ [][NextSession]_vars

\* The handlers that work on the current item: navigation, trim and upload
NextItem ==
    \/ MW_load_csv
    \/ MW_select_combo
    \/ MW_toggle_8k
    \/ MW_initialize_recording
    \/ MW_next_sentence
    \/ MW_prev_sentence
    \/ TIMER_next_sentence
    \/ MW_trim_audio
    \/ MW_upload_recording

SpecItem == Init /\ [][NextItem]_vars

\* ------------------------------------------------------------------------
\* Specification of AppConfig
\* ------------------------------------------------------------------------
CfgCall(name, r) ==
    /\ calls < MaxConfigCalls
    /\ calls' = calls + 1
    /\ op' = name
    /\ ret' = r
    /\ emitted' = <<>>
    /\ UNCHANGED <<trimVars, dm, mwVars, recVars, player, workers, events>>

\* set; set_path, set_audio_setting and set_ui_setting are set with the
\* section "paths", "audio" and "ui"
CFG_set ==
    \E section \in {"audio", "paths", "ui", "data", "video"},
       key \in {"sample_rate_high", "base_dir", "dark_mode", "extra"},
       value \in {"44100", "out"} :
        /\ config' = ConfigSet(config, section, key, value)
        /\ CfgCall("set", IF section \in DOMAIN config.instance THEN "True" ELSE "False")

CFG_reset_to_defaults ==
    /\ config' = reset_to_defaults(config)
    /\ CfgCall("reset_to_defaults", None)

\* another AppConfig object is constructed in the same process
CFG_AppConfig ==
    /\ config' = AppConfig_init(config)
    /\ CfgCall("AppConfig", None)

NextConfig ==
    \/ CFG_set
    \/ CFG_reset_to_defaults
    \/ CFG_AppConfig

SpecConfig == Init /\ [][NextConfig]_vars

\* ------------------------------------------------------------------------
\* Specification of the navigation handlers of the MainWindow
\* ------------------------------------------------------------------------
\* list(range(a, b))
PyRange(a, b) == [k \in 1..Max2(b - a, 0) |-> a + k - 1]

\* the search order left without the wrap to row 0
search_indices_nowrap(current_idx, total_items) == PyRange(current_idx + 1, total_items)

\* go_to_next_unrecorded, line 641
search_indices(current_idx, total_items) ==
    PyRange(current_idx + 1, total_items) \o PyRange(0, current_idx + 1)

\* the for loop of lines 642-647: the first index whose row is not recorded
RECURSIVE FirstUnrecorded(_, _)
FirstUnrecorded(d, indices) ==
    IF indices = <<>> THEN -1
    ELSE IF ~RowRecorded(d, d.dataframe.rows[Head(indices) + 1]) THEN Head(indices)
    ELSE FirstUnrecorded(d, Tail(indices))

\* go_to_next_unrecorded, lines 634-648
go_to_next_unrecorded(s) ==
    IF ~s.dataframe.loaded \/ DfEmpty(s.dataframe) THEN Result(s, <<>>, None)
    ELSE LET idx == FirstUnrecorded(s, search_indices(s.current_index, Len(s.dataframe.rows)))
         IN IF idx # -1
            THEN Result([s EXCEPT !.current_index = idx],
                        <<Sig("current_item_changed", idx)>>, None)
            ELSE Result(s, <<Sig("information", -1)>>, None)

MW_go_to_next_unrecorded ==
    /\ dm' = go_to_next_unrecorded(dm).dm
    /\ mw' = ApplySlots(mw, go_to_next_unrecorded(dm).dm, go_to_next_unrecorded(dm).emitted)
    /\ UNCHANGED <<fs, recVars>>
    /\ MWCall("go_to_next_unrecorded", None, go_to_next_unrecorded(dm).emitted)

\* load_by_id, lines 817-821; id_text 0 is the empty text. DataManager has
\* no method set_current_item_by_id: line 820 raises AttributeError before
\* anything is looked up or reported
load_by_id(s, id_text) ==
    IF id_text = 0 THEN Result(s, <<>>, None) ELSE Result(s, <<>>, "raise")

\* the user types an ID into text_id and presses Enter
MW_load_by_id ==
    \E id_text \in 0..(NumRows + 2) :
        /\ dm' = load_by_id(dm, id_text).dm
        /\ mw' = [mw EXCEPT !.text_id = id_text]
        /\ UNCHANGED <<fs, recVars>>
        /\ MWCall("load_by_id", load_by_id(dm, id_text).ret, load_by_id(dm, id_text).emitted)

\* saved.csv as an earlier run may have left it: one row more than the other
\* files, any subset of the rows recorded
NavCsvFiles ==
    { [InitialCsvFiles EXCEPT !["saved.csv"] =
          FileTable(required_columns \cup optional_columns,
                    [i \in 1..(NumRows + 1) |->
                        IF i \in done THEN RecordedRow(i) ELSE BlankRow(i)])] :
      done \in SUBSET (1..(NumRows + 1)) }

InitNav ==
    /\ t_in = NoTrimIn
    /\ t_out = NoTrimOut
    /\ fs = InitFS({})
    /\ dm \in {[InitDM EXCEPT !.csv_files = f] : f \in NavCsvFiles}
    /\ mw = InitMW
    /\ rec = InitRecorder
    /\ threads = InitThreads
    /\ wavs = InitWavs
    /\ delivered = InitDelivered
    /\ player = InitPlayer
    /\ workers = InitWorkers
    /\ events = <<>>
    /\ config = InitConfig
    /\ op = "init"
    /\ ret = None
    /\ emitted = <<>>
    /\ calls = 0

NextNav ==
    \/ MW_load_csv
    \/ MW_next_sentence
    \/ MW_prev_sentence
    \/ MW_go_to_next_unrecorded
    \/ MW_load_by_id

SpecNav == InitNav /\ [][NextNav]_vars

\* ------------------------------------------------------------------------
\* Specification of recording over an item that an earlier session uploaded:
\* the session handlers together with the navigation keys
\* ------------------------------------------------------------------------
\* full.csv as an earlier session may have left it: its recorded row uploaded
UploadedCsvFiles ==
    { [InitialCsvFiles EXCEPT !["full.csv"].rows[1].uploaded = u] : u \in BOOLEAN }

InitRerecord ==
    /\ t_in = NoTrimIn
    /\ t_out = NoTrimOut
    /\ fs = InitFS({})
    /\ dm \in {[InitDM EXCEPT !.csv_files = f] : f \in UploadedCsvFiles}
    /\ mw = InitMW
    /\ rec = InitRecorder
    /\ threads = InitThreads
    /\ wavs = InitWavs
    /\ delivered = InitDelivered
    /\ player = InitPlayer
    /\ workers = InitWorkers
    /\ events = <<>>
    /\ config = InitConfig
    /\ op = "init"
    /\ ret = None
    /\ emitted = <<>>
    /\ calls = 0

\* next_sentence and prev_sentence (lines 628-632) at any time of the session
KEY_next_sentence ==
    LET r == next_item(dm) IN
    /\ dm' = r.dm
    /\ mw' = ApplySlots(mw, r.dm, r.emitted)
    /\ UNCHANGED <<fs, recVars, calls>>
    /\ MWStep("next_sentence", None, r.emitted)

KEY_prev_sentence ==
    LET r == previous_item(dm) IN
    /\ dm' = r.dm
    /\ mw' = ApplySlots(mw, r.dm, r.emitted)
    /\ UNCHANGED <<fs, recVars, calls>>
    /\ MWStep("prev_sentence", None, r.emitted)

NextRerecord ==
    \/ MW_load_csv
    \/ MW_select_combo
    \/ MW_toggle_8k
    \/ MW_initialize_recording
    \/ MW_handle_record_button_press
    \/ MW_stop_recording
    \/ THREAD_open_streams
    \/ THREAD_exit_loop
    \/ CALLBACK_48k
    \/ CALLBACK_8k
    \/ KEY_next_sentence
    \/ KEY_prev_sentence

SpecRerecord == InitRerecord /\ [][NextRerecord]_vars

\* ------------------------------------------------------------------------
\* Specification of the AudioPlayer with its playback threads and the main
\* thread's event queue
\* ------------------------------------------------------------------------
PlStep(name, r, em) ==
    /\ op' = name
    /\ ret' = r
    /\ emitted' = em
    /\ UNCHANGED <<trimVars, dm, mwVars, recVars, config>>

PlCall(name, r, em) ==
    /\ calls < MaxPlayerCalls
    /\ calls' = calls + 1
    /\ PlStep(name, r, em)

\* the main thread is in its event loop, free to run a handler
MainIdle == player.alive /\ player.main = "idle"

NextSlot(w) == IF FreeWorkers(w) = {} THEN 0 ELSE SetMin(FreeWorkers(w))

\* the outcomes of dropping the QThread object t
CrashChoices(w, t) == IF t # 0 /\ isRunning(w[t]) THEN BOOLEAN ELSE {FALSE}

PL_load_audio_file ==
    \E f \in AudioFiles :
        /\ MainIdle
        /\ player' = load_audio_file(player, f)
        /\ UNCHANGED <<workers, events>>
        /\ PlCall("load_audio_file", "True", <<Sig("duration_changed", player'.duration)>>)

PL_play ==
    \E crash \in CrashChoices(workers, player.playback_thread) :
        /\ MainIdle
        /\ PlayStarts(player) => FreeWorkers(workers) # {}
        /\ LET r == play(player, workers, NextSlot(workers), crash)
           IN /\ player' = r.player
              /\ workers' = r.workers
              /\ PlCall("play", r.ret, r.emitted)
        /\ UNCHANGED events

PL_pause ==
    /\ MainIdle
    /\ player' = pause(player).player
    /\ UNCHANGED <<workers, events>>
    /\ PlCall("pause", None, pause(player).emitted)

PL_resume ==
    /\ MainIdle
    /\ player' = resume(player).player
    /\ UNCHANGED <<workers, events>>
    /\ PlCall("resume", None, resume(player).emitted)

\* seek; a request made while playing and not paused is remembered in
\* seek_request until a worker reads it
PL_seek ==
    \E position_seconds \in SeekMs :
        /\ MainIdle
        /\ LET k == seek(player, position_seconds)
           IN /\ player' = [k.player EXCEPT !.seek_request =
                                IF k.player.seek_position # player.seek_position
                                   \/ (player.is_playing /\ ~player.is_paused
                                       /\ player.audio_data # NoAudio)
                                THEN k.player.seek_position ELSE @]
              /\ PlCall("seek", None, k.emitted)
        /\ UNCHANGED <<workers, events>>

PL_stop ==
    /\ MainIdle
    /\ IF ~player.is_playing
       THEN /\ UNCHANGED <<player, workers>>
            /\ PlCall("stop", None, <<>>)
       ELSE LET b == stop_begin(player, workers, "stop")
            IN /\ workers' = b.workers
               /\ IF b.player.main = "stop"
                  THEN /\ player' = b.player
                       /\ PlCall("stop", None, <<>>)
                  ELSE /\ player' = stop_end(b.player).player
                       /\ PlCall("stop", None, stop_end(b.player).emitted)
    /\ UNCHANGED events

\* the wait(1000) of stop returns: the thread has ended or the time is over
PL_stop_returns ==
    /\ player.alive
    /\ player.main = "stop"
    /\ player' = stop_end(player).player
    /\ UNCHANGED <<workers, events, calls>>
    /\ PlStep("stop_returns", None, stop_end(player).emitted)

PL_toggle_sample_rate ==
    /\ MainIdle
    /\ IF player.audio_data_8k = NoAudio \/ ~player.is_playing
       THEN /\ UNCHANGED <<player, workers>>
            /\ PlCall("toggle_sample_rate", None, <<>>)
       ELSE LET b == stop_begin([player EXCEPT !.saved_pos = player.current_position],
                                workers, "toggle")
            IN /\ FreeWorkers(workers) # {}
               /\ IF b.player.main = "toggle"
                  THEN /\ player' = b.player
                       /\ workers' = b.workers
                       /\ PlCall("toggle_sample_rate", None, <<>>)
                  ELSE LET r == toggle_rest(b.player, b.workers, NextSlot(workers), FALSE)
                       IN /\ player' = [r.player EXCEPT !.toggle_call = calls + 1,
                                                        !.toggle_worker = NextSlot(workers)]
                          /\ workers' = r.workers
                          /\ PlCall("toggle_sample_rate", None, r.emitted)
    /\ UNCHANGED events

\* the wait(1000) of the stop() inside toggle_sample_rate returns
PL_toggle_returns ==
    \E crash \in CrashChoices(workers, player.playback_thread) :
        /\ player.alive
        /\ player.main = "toggle"
        /\ LET r == toggle_rest(player, workers, NextSlot(workers), crash)
           IN /\ player' = [r.player EXCEPT !.toggle_call = calls,
                                            !.toggle_worker = NextSlot(workers)]
              /\ workers' = r.workers
              /\ PlStep("toggle_returns", None, r.emitted)
        /\ UNCHANGED <<events, calls>>

\* the event loop delivers a worker's finished signal to _playback_finished
EV_playback_finished ==
    /\ MainIdle
    /\ events # <<>>
    /\ LET b == playback_finished_begin(player, workers)
       IN /\ player' = b.player
          /\ workers' = b.workers
    /\ events' = Tail(events)
    /\ UNCHANGED calls
    /\ PlStep("playback_finished", None, <<Sig("playback_stopped", 0)>>)

\* the wait(1000) of _playback_finished returns
EV_playback_finished_returns ==
    \E crash \in CrashChoices(workers, player.playback_thread) :
        /\ player.alive
        /\ player.main = "finished"
        /\ player' = playback_finished_end(player, workers, crash)
        /\ UNCHANGED <<workers, events, calls>>
        /\ PlStep("playback_finished_returns", None, <<>>)

\* RecordingPanel.on_stop_clicked -> stop_button_clicked ->
\* MainWindow.stop_recording while nothing is being recorded: line 480 returns
MW_stop_button_clicked ==
    /\ MainIdle
    /\ ~rec.is_recording
    /\ UNCHANGED <<player, workers, events>>
    /\ PlCall("stop_button_clicked", None, <<>>)

\* PlaybackWorker.run, lines 36-44: the output stream is created (ok) or
\* sounddevice raises and lines 68-69 emit error_occurred, then finished
WORKER_open_stream ==
    \E i \in 1..MaxWorkers, ok \in BOOLEAN :
        /\ player.alive
        /\ workers[i].pc = "started"
        /\ workers' = [workers EXCEPT ![i] =
               IF ok THEN [@ EXCEPT !.pc = "loop"]
               ELSE [@ EXCEPT !.pc = "done", !.sigs = <<"error_occurred", "finished">>]]
        /\ events' = IF ok THEN events ELSE Append(events, i)
        /\ UNCHANGED <<player, calls>>
        /\ PlStep("worker_open_stream", None, <<>>)

\* lines 45-51: the loop condition, the pause check and the first line of
\* _consume_seek (pos = self.seek_position); line 66 when the loop ends
WORKER_poll ==
    \E i \in 1..MaxWorkers :
        /\ player.alive
        /\ workers[i].pc = "loop"
        /\ IF ~player.is_playing \/ workers[i].current_sample >= workers[i].audio_len
           THEN /\ workers' = [workers EXCEPT ![i].pc = "done",
                                              ![i].sigs = Append(@, "finished")]
                /\ events' = Append(events, i)
                /\ UNCHANGED player
           ELSE IF player.is_paused
           THEN UNCHANGED <<player, workers, events>>
           ELSE /\ workers' = [workers EXCEPT ![i].pc = "seek",
                                              ![i].seek_seconds = player.seek_position]
                /\ player' = [player EXCEPT !.seek_request = -1]
                /\ UNCHANGED events
        /\ UNCHANGED calls
        /\ PlStep("worker_poll", None, <<>>)

\* lines 170-171 and 52-64: _consume_seek clears seek_position, the chunk is
\* written and _update_current_position stores the new position
WORKER_write ==
    \E i \in 1..MaxWorkers :
        /\ player.alive
        /\ workers[i].pc = "seek"
        /\ LET wk == workers[i]
               current_sample == IF wk.seek_seconds # -1
                                 THEN wk.seek_seconds * wk.sample_rate
                                 ELSE wk.current_sample
               end_sample == Min2(current_sample + ChunkMs * wk.sample_rate, wk.audio_len)
           IN /\ workers' = [workers EXCEPT ![i] =
                     [wk EXCEPT !.pc = "loop", !.current_sample = end_sample,
                                !.chunk_start = current_sample, !.seek_seconds = -1]]
              /\ player' = [player EXCEPT !.seek_position = -1,
                                          !.current_position = end_sample \div wk.sample_rate]
              /\ PlStep("worker_write", None,
                        <<Sig("position_changed", end_sample \div wk.sample_rate)>>)
        /\ UNCHANGED <<events, calls>>

NextPlayer ==
    \/ PL_load_audio_file
    \/ PL_play
    \/ PL_pause
    \/ PL_resume
    \/ PL_seek
    \/ PL_stop
    \/ PL_stop_returns
    \/ PL_toggle_sample_rate
    \/ PL_toggle_returns
    \/ EV_playback_finished
    \/ EV_playback_finished_returns
    \/ MW_stop_button_clicked
    \/ WORKER_open_stream
    \/ WORKER_poll
    \/ WORKER_write

SpecPlayer == Init /\ [][NextPlayer]_vars

\* The playback threads are scheduled by the operating system, the main
\* thread's event loop delivers every queued signal, and a wait(1000)
\* returns after a second at the latest.
SpecPlayerFair ==
    /\ Init
    /\ [][NextPlayer]_vars
    /\ WF_vars(WORKER_open_stream)
    /\ WF_vars(WORKER_poll)
    /\ WF_vars(WORKER_write)
    /\ WF_vars(EV_playback_finished)
    /\ WF_vars(EV_playback_finished_returns)
    /\ WF_vars(PL_stop_returns)
    /\ WF_vars(PL_toggle_returns)


\* ========================================================================
\* Properties
\* ========================================================================
Rows == dm.dataframe.rows

NonEmptyTable == dm.dataframe.loaded /\ Len(Rows) > 0

Signals(em) == {em[i].sig : i \in 1..Len(em)}

\* ---- C1 ----------------------------------------------------------------
FileWritten(rate) == [sig |-> "file_written", idx |-> rate]

\* the stop_recording call that ends a recording whose 48 kHz stream (and,
\* when 8 kHz was enabled at start, 8 kHz stream) delivered a frame
C1_Case ==
    /\ op' = "stop_recording"
    /\ rec.is_recording
    /\ delivered.d48
    /\ delivered.enabled_at_start => delivered.d8

C1_BothThenSignal ==
    /\ Len(emitted') = 3
    /\ emitted'[1] = FileWritten(48)
    /\ emitted'[2] = FileWritten(8)
    /\ emitted'[3].sig = "recording_stopped"
    /\ wavs'[Wav48] = WavFile(rec.frames_48k)
    /\ wavs'[Wav8] = WavFile(rec.frames_8k)

C1_Only48ThenSignal ==
    /\ Len(emitted') = 2
    /\ emitted'[1] = FileWritten(48)
    /\ emitted'[2].sig = "recording_stopped"
    /\ wavs'[Wav48] = WavFile(rec.frames_48k)

C1_No8k ==
    /\ rec'.filename_8k = NonePath
    /\ wavs'[Wav8] = wavs[Wav8]
    /\ FileWritten(8) \notin {emitted'[i] : i \in 1..Len(emitted')}

\* C1 as stated: with 8 kHz enabled at start and a frame from both
\* streams, stop_recording writes both files before recording_stopped; with
\* 8 kHz disabled at start only the 48 kHz file is written and filename_8k
\* is None.
C1_Original ==
    [][C1_Case =>
         IF delivered.enabled_at_start
         THEN C1_BothThenSignal
         ELSE C1_Only48ThenSignal /\ C1_No8k]_vars

\* C1 (amended): the same, unless sf.write raises for a file: that file is
\* then not written and error_occurred is emitted for it; recording_stopped
\* is still the last thing emitted, and with 8 kHz disabled at start the
\* 8 kHz file is never written and filename_8k is None.
C1_WritesBeforeSignal ==
    [][C1_Case =>
         /\ emitted'[Len(emitted')].sig = "recording_stopped"
         /\ \A i \in 1..(Len(emitted') - 1) : emitted'[i].sig \in {"file_written", "error_occurred"}
         /\ ~delivered.enabled_at_start => C1_No8k
         /\ "error_occurred" \notin Signals(emitted') =>
               IF delivered.enabled_at_start
               THEN C1_BothThenSignal
               ELSE C1_Only48ThenSignal]_vars

\* a recording with 8 kHz enabled was stopped and both files were written
C1_Witness ==
    /\ op = "stop_recording"
    /\ delivered.enabled_at_start /\ delivered.d48 /\ delivered.d8
    /\ Len(emitted) = 3
    /\ emitted[1] = FileWritten(48)
    /\ emitted[2] = FileWritten(8)
    /\ emitted[3].sig = "recording_stopped"
    /\ wavs[Wav48] = WavFile(rec.frames_48k)
    /\ wavs[Wav8] = WavFile(rec.frames_8k)
    /\ rec.frames_8k # <<>>

\* ---- C2 ----------------------------------------------------------------
\* one next_item or previous_item call does what the claim says
C2_StepOK ==
    NonEmptyTable =>
      /\ op' = "next_item" =>
           IF dm.current_index < Len(Rows) - 1
           THEN /\ dm'.current_index = dm.current_index + 1
                /\ ret' = "True"
                /\ emitted' = <<Sig("current_item_changed", dm.current_index + 1)>>
           ELSE /\ dm'.current_index = dm.current_index
                /\ ret' = "False"
                /\ emitted' = <<>>
      /\ op' = "previous_item" =>
           IF dm.current_index > 0
           THEN /\ dm'.current_index = dm.current_index - 1
                /\ ret' = "True"
                /\ emitted' = <<Sig("current_item_changed", dm.current_index - 1)>>
           ELSE /\ dm'.current_index = dm.current_index
                /\ ret' = "False"
                /\ emitted' = <<>>

\* C2: on a loaded non-empty table next_item moves current_index up by
\* exactly 1, emits current_item_changed for the new row and returns True
\* when current_index < rows - 1; at the last row it returns False, keeps
\* the index and emits nothing.  previous_item mirrors it at index 0.
C2_NextPrevious == [][C2_StepOK]_vars

\* next_item was refused at the last row after an earlier advance
C2_Witness ==
    /\ NonEmptyTable
    /\ op = "next_item"
    /\ ret = "False"
    /\ dm.current_index = Len(Rows) - 1
    /\ dm.current_index > 0

\* ---- C3 ----------------------------------------------------------------
\* C3: whenever update_current_item, register_recording or
\* update_trim_status returns True while csv_path is set, the CSV file at
\* csv_path holds exactly the in-memory table.
C3_TrueMeansPersisted ==
    (/\ op \in {"update_current_item", "register_recording", "update_trim_status"}
     /\ ret = "True"
     /\ dm.csv_path # None)
    => dm.csv_files[dm.csv_path] = to_csv(dm.dataframe)

\* ---- C4 ----------------------------------------------------------------
\* The claim's quantities, computed from the input without the code's steps.
C4_Norm == NormaliseAudio(t_in.dtype, t_in.audio)

C4_Above ==
    {i \in 0..(Len(t_in.audio) - 1) :
        AboveThreshold(C4_Norm[i + 1], AmplitudeThreshold(t_in.threshold_db))}

C4_First == CHOOSE i \in C4_Above : \A j \in C4_Above : i <= j

C4_Last == CHOOSE i \in C4_Above : \A j \in C4_Above : i >= j

\* floor(padding_ms * sample_rate / 1000)
C4_Pad ==
    CHOOSE q \in 0..(3 * 1000) :
        /\ q * 1000 <= t_in.padding_ms * t_in.sample_rate
        /\ t_in.padding_ms * t_in.sample_rate < (q + 1) * 1000

C4_Lo == IF C4_First - C4_Pad > 0 THEN C4_First - C4_Pad ELSE 0

C4_Hi == IF C4_Last + C4_Pad < Len(t_in.audio) - 1 THEN C4_Last + C4_Pad ELSE Len(t_in.audio) - 1

\* C4: with at least one sample above the threshold the result is exactly
\* the samples (as floats) at indices max(0, first - pad) .. min(n - 1,
\* last + pad), and the duration is the slice length / sample_rate; with an
\* empty input or nothing above the threshold the result is empty, duration 0.
C4_TrimSlice ==
    t_out.done =>
      IF C4_Above = {}
      THEN /\ t_out.audio = <<>>
           /\ t_out.duration[1] = 0
      ELSE /\ Len(t_out.audio) = C4_Hi - C4_Lo + 1
           /\ \A k \in 1..Len(t_out.audio) : t_out.audio[k] = C4_Norm[C4_Lo + k]
           /\ t_out.duration[1] * t_in.sample_rate = Len(t_out.audio) * t_out.duration[2]

\* silence was cut on both sides and one sample of padding kept on both sides
C4_Witness ==
    /\ t_out.done
    /\ C4_Above # {}
    /\ C4_Pad = 1
    /\ C4_Lo = C4_First - 1
    /\ C4_Lo > 0
    /\ C4_Hi = C4_Last + 1
    /\ C4_Hi < Len(t_in.audio) - 1

\* ---- C5 ----------------------------------------------------------------
\* the current row and its 48 kHz file when trim_audio gets past its checks
C5_Row == CurrentRow(dm)

C5_Pre ==
    /\ mw.controls_enabled
    /\ HasCurrentItem(dm)
    /\ C5_Row.audio_path_48k \notin {NaN, EmptyPath}
    /\ WavExists(wavs, C5_Row.audio_path_48k)

\* what trim_silence_numpy makes of the file with the recorder's settings
C5_Trimmed ==
    trim_silence_numpy(wavs[C5_Row.audio_path_48k].samples, "float", rate_48k,
                       silence_threshold_db, padding_ms)

C5_StepOK ==
    (op' = "trim_audio" /\ ret' = None /\ C5_Pre) =>
      LET p   == C5_Row.audio_path_48k
          out == C5_Trimmed
          row == dm'.dataframe.rows[dm.current_index + 1]
      IN IF Len(out.audio) > 0
         THEN /\ wavs'[p].exists
              /\ wavs'[p].samples = [i \in 1..Len(out.audio) |-> out.audio[i][1]]
              /\ row.trimmed = TRUE
              /\ row.duration = out.duration[1]
         ELSE /\ wavs'[p] = wavs[p]
              /\ row.trimmed = FALSE
              /\ row.duration = C5_Row.duration

\* C5: trim_audio on a current row whose 48 kHz file exists and has a sample
\* above the threshold overwrites the file with the trimmed audio and sets
\* trimmed to True and duration to the trimmed duration; when the trim yields
\* empty audio the file is not rewritten, trimmed is False and duration is
\* unchanged.
C5_TrimAudioUpdatesRow == [][C5_StepOK]_vars

\* ---- C6 ----------------------------------------------------------------
\* the row upload_recording worked on is marked uploaded in table f
C6_Marked(cols, rows, i) == "uploaded" \in cols /\ rows[i].uploaded = TRUE

C6_StepOK ==
    (op' = "upload_recording" /\ ret' = "True" /\ "data_saved" \in Signals(emitted')) =>
      LET i == dm.current_index + 1
          f == dm'.csv_files[dm'.csv_path]
      IN /\ C6_Marked(dm'.dataframe.columns, dm'.dataframe.rows, i)
         /\ C6_Marked(f.columns, f.rows, i)

\* C6: after upload_recording got an OK response for the current row (and
\* the CSV file could be written), the row's uploaded field is True in the
\* in-memory table and in the CSV file, whatever accepted CSV was loaded.
C6_UploadMarksRow == [][C6_StepOK]_vars

\* ---- C7 ----------------------------------------------------------------
\* an upload that was attempted (the UI was set busy) and failed
C7_FailedUpload ==
    /\ op' = "upload_recording"
    /\ ret' = "False"
    /\ "set_ui_busy" \in Signals(emitted')

C7_StepOK ==
    C7_FailedUpload =>
      /\ dm'.dataframe.rows[dm.current_index + 1].uploaded = C5_Row.uploaded
      /\ dm'.current_index = dm.current_index
      /\ mw'.indicator = mw.indicator
      /\ mw'.controls_enabled

\* C7: when upload_recording fails, the row's uploaded field, the current
\* index and the traffic-light state equal their values from before the call
\* and the panel controls are enabled again.
C7_FailedUploadKeepsState == [][C7_StepOK]_vars

\* ---- C8 ----------------------------------------------------------------
\* a load_csv call that returned False changed nothing and emitted neither signal
C8_StepOK ==
    (op' = "load_csv" /\ ret' = "False") =>
      /\ dm'.dataframe = dm.dataframe
      /\ dm'.csv_path = dm.csv_path
      /\ dm'.current_index = dm.current_index
      /\ dm'.total_audio_count = dm.total_audio_count
      /\ dm'.total_duration = dm.total_duration
      /\ Signals(emitted') \cap {"data_loaded", "current_item_changed"} = {}

\* C8: whenever load_csv returns False, the loaded table, csv_path,
\* current_index, total_audio_count and total_duration are unchanged and
\* neither data_loaded nor current_item_changed is emitted.
C8_FailedLoadKeepsState == [][C8_StepOK]_vars

\* ---- C9 ----------------------------------------------------------------
\* initialize_recording got past the combo check and os.makedirs raised
C9_FailedInit ==
    /\ op' = "initialize_recording"
    /\ "show_error" \in Signals(emitted')

C9_StepOK ==
    /\ C9_FailedInit =>
         /\ mw'.output_dir = mw.output_dir
         /\ mw'.controls_enabled = mw.controls_enabled
    /\ (op' = "start_recording" /\ mw.submit_enabled) =>
         "warning_not_initialized" \in Signals(emitted')

\* C9: a failed initialize_recording leaves output_dir and the disabled
\* controls as they were, and as long as no initialize_recording succeeded
\* start_recording refuses with the 'Not Initialized' warning.
C9_FailedInitStaysUninitialised == [][C9_StepOK]_vars

\* ---- C10 ---------------------------------------------------------------
C10_Success ==
    /\ op' = "initialize_recording"
    /\ "information" \in Signals(emitted')

C10_StepOK ==
    /\ C10_Success =>
         LET n == mw'.output_dir IN
         /\ n >= 0
         /\ n \notin fs.exists
         /\ \A k \in 0..(n - 1) : k \in fs.exists
         /\ n \in fs'.exists /\ n \in fs'.sub48 /\ n \in fs'.sub8
    /\ (op' = "initialize_recording" /\ \E c \in Combos : mw.combos[c] = 0) =>
         /\ fs' = fs
         /\ mw'.output_dir = mw.output_dir

\* C10: a successful initialize_recording sets output_dir to a directory that
\* did not exist before the call, the base name or the base name with the
\* smallest free suffix N >= 1, and afterwards it exists with 48khz and 8khz;
\* with a combo box unselected nothing is created and output_dir is unchanged.
C10_FreshSessionDir == [][C10_StepOK]_vars

\* a session was initialised in a suffixed directory although a directory
\* with a larger suffix existed already
C10_Witness ==
    /\ op = "initialize_recording"
    /\ "information" \in Signals(emitted)
    /\ mw.output_dir = 1
    /\ {0, 1, 2} \subseteq fs.exists
    /\ 1 \in fs.sub48 /\ 1 \in fs.sub8 /\ 2 \notin fs.sub48

\* ---- C11 ---------------------------------------------------------------
\* thread t is in _record_audio (creating its streams or polling)
C11_InLoop(t) == threads[t].pc \in {"started", "streaming"}

\* a thread leaves its polling loop only when is_recording is False after
\* the step
C11_ExitStep ==
    \A t \in 1..MaxThreads :
        (threads[t].pc = "streaming" /\ threads'[t].pc = "done") => ~rec'.is_recording

\* C11: once is_recording is False every recorder thread that is still in
\* _record_audio eventually leaves its polling loop (its streams are closed
\* by the with block), and no loop exits while is_recording stays True.
C11_LoopExitsAfterStop ==
    /\ \A t \in 1..MaxThreads :
          (C11_InLoop(t) /\ ~rec.is_recording) ~> (threads[t].pc = "done")
    /\ [][C11_ExitStep]_vars

\* ---- C12 ---------------------------------------------------------------
\* what a run of PlaybackWorker.run may have emitted so far
C12_SignalsOK(i) ==
    workers[i].sigs \in {<<>>, <<"finished">>, <<"error_occurred", "finished">>}

\* C12: every run of PlaybackWorker.run emits finished at most once, with
\* error_occurred before it after an exception, and emits it eventually once
\* the last sample is written or stop() has made the stop flag true.
C12_FinishedExactlyOnce ==
    /\ [](\A i \in 1..MaxWorkers : C12_SignalsOK(i))
    /\ \A i \in 1..MaxWorkers :
          (WorkerRunning(workers[i])
              /\ (~player.is_playing \/ workers[i].current_sample >= workers[i].audio_len))
          ~> (workers[i].sigs # <<>>)

\* ---- C13 ---------------------------------------------------------------
\* the recorder threads inside the polling loop of _record_audio
C13_RecorderLoops == {t \in 1..MaxThreads : threads[t].pc = "streaming"}

\* the playback workers inside the loop of PlaybackWorker.run
C13_WorkerLoops == {i \in 1..MaxWorkers : workers[i].pc \in {"loop", "seek"}}

\* C13: at any time at most one recorder thread loop and at most one
\* PlaybackWorker loop is executing.
C13_AtMostOneLoop ==
    /\ Cardinality(C13_RecorderLoops) <= 1
    /\ Cardinality(C13_WorkerLoops) <= 1

\* ---- C14 ---------------------------------------------------------------
\* audio is loaded, no playback worker is running and no finished signal
\* waits for delivery
C14_Pre ==
    /\ player.audio_data # NoAudio
    /\ \A i \in 1..MaxWorkers : ~WorkerRunning(workers[i])
    /\ events = <<>>

C14_StepOK ==
    (op' = "play" /\ C14_Pre) =>
        /\ ret' = "True"
        /\ player'.is_playing
        /\ ~player'.is_paused
        /\ \E i \in 1..MaxWorkers : workers[i].pc = "none" /\ workers'[i].pc = "started"

\* C14: with audio loaded and no playback worker running, play() returns
\* True, leaves is_playing = True and is_paused = False and starts a worker.
C14_PlayStartsPlayback == [][C14_StepOK]_vars

\* ---- C15 ---------------------------------------------------------------
C15_StepOK ==
    (op' = "stop_button_clicked" /\ player.is_playing /\ ~rec.is_recording) =>
        /\ ~player'.is_playing
        /\ "playback_stopped" \in Signals(emitted')

\* C15: a click on the stop button while audio is playing and nothing is
\* being recorded leaves is_playing = False (the workers' stop flag is then
\* true) with playback_stopped emitted.
C15_StopButtonStopsPlayback == [][C15_StepOK]_vars

\* ---- C16 ---------------------------------------------------------------
\* the step in which toggle_sample_rate swaps the tracks and calls play()
C16_ToggleStep ==
    /\ op' \in {"toggle_sample_rate", "toggle_returns"}
    /\ player'.toggle_call = calls'
    /\ player'.alive

\* the position that was current when toggle_sample_rate was called
C16_PosBefore == IF player.main = "toggle" THEN player.saved_pos ELSE player.current_position

C16_StepOK ==
    C16_ToggleStep =>
        /\ player'.audio_data = player.audio_data_8k
        /\ player'.audio_data_8k = player.audio_data
        /\ player'.sample_rate # player.sample_rate
        /\ workers'[player'.toggle_worker].pc = "started"
        /\ workers'[player'.toggle_worker].audio_len = player.audio_data_8k.len
        /\ workers'[player'.toggle_worker].current_sample
               = Min2(C16_PosBefore, player'.duration) * player'.sample_rate

\* no call was made since the toggle, every queued signal is delivered, and
\* the worker the toggle started neither reached the end nor failed
C16_Settled ==
    /\ player.alive
    /\ player.toggle_call = calls
    /\ player.main = "idle"
    /\ events = <<>>
    /\ workers[player.toggle_worker].current_sample < workers[player.toggle_worker].audio_len
    /\ "error_occurred" \notin {workers[player.toggle_worker].sigs[k] :
                                    k \in 1..Len(workers[player.toggle_worker].sigs)}

\* C16: toggle_sample_rate during playback swaps audio_data and sample_rate
\* with the secondary track and starts a worker on the new track from the
\* position current before the toggle, and once all queued signals are
\* delivered playback is running.
C16_ToggleKeepsPlaying ==
    /\ [][C16_StepOK]_vars
    /\ [](C16_Settled => player.is_playing)

\* ---- C20 ---------------------------------------------------------------
\* the chunk a worker writes after it has read a seek request starts at the
\* requested sample
C20_StepOK ==
    \A i \in 1..MaxWorkers :
        (op' = "worker_write" /\ workers[i].pc = "seek" /\ workers'[i].pc = "loop"
            /\ workers[i].seek_seconds # -1) =>
            workers'[i].chunk_start = workers[i].seek_seconds * workers[i].sample_rate

\* a seek made while playing and not paused that no worker has read yet is
\* still held in seek_position
C20_RequestKept ==
    (player.alive /\ player.is_playing /\ player.seek_request # -1) =>
        player.seek_position = player.seek_request

\* C20: every seek(p) issued while playing and not paused is applied by the
\* worker: no request is lost between seek() on the UI thread and the read
\* and clear of _consume_seek() on the worker thread, and the chunk written
\* after the read starts at sample int(clamp(p, 0, duration) * sample_rate).
C20_SeekApplied ==
    /\ [][C20_StepOK]_vars
    /\ [](C20_RequestKept)

\* ---- C17 ---------------------------------------------------------------
\* the rows in cyclic order from current_index + 1 round to current_index
C17_Cyclic(k) == (dm.current_index + k) % Len(dm.dataframe.rows)

C17_Unrecorded(i) == ~dm.dataframe.rows[i + 1].recorded

\* the distance of the first unrecorded row in cyclic order; 0: none
C17_First ==
    IF \E k \in 1..Len(dm.dataframe.rows) : C17_Unrecorded(C17_Cyclic(k))
    THEN SetMin({k \in 1..Len(dm.dataframe.rows) : C17_Unrecorded(C17_Cyclic(k))})
    ELSE 0

C17_StepOK ==
    (op' = "go_to_next_unrecorded" /\ NonEmptyTable) =>
        IF C17_First # 0
        THEN /\ dm'.current_index = C17_Cyclic(C17_First)
             /\ emitted' = <<Sig("current_item_changed", C17_Cyclic(C17_First))>>
             /\ dm'.dataframe = dm.dataframe
        ELSE /\ dm' = dm
             /\ "current_item_changed" \notin Signals(emitted')

\* C17: go_to_next_unrecorded moves current_index to the first unrecorded
\* row in cyclic order from current_index + 1, wrapping to row 0 and ending
\* at current_index itself, and emits current_item_changed for it; with
\* every row recorded it changes nothing and emits no current_item_changed.
C17_NextUnrecorded == [][C17_StepOK]_vars

\* go_to_next_unrecorded has ended on row 0 of a table whose later rows are
\* all recorded: the search passed the last row and took up at row 0
C17_Witness ==
    /\ op = "go_to_next_unrecorded"
    /\ emitted # <<>>
    /\ emitted[1].sig = "current_item_changed"
    /\ dm.current_index = 0
    /\ Len(dm.dataframe.rows) = NumRows + 1
    /\ dm.dataframe.rows[2].recorded
    /\ dm.dataframe.rows[3].recorded

\* ---- C18 ---------------------------------------------------------------
C18_StepOK ==
    (op' = "load_by_id" /\ mw'.text_id # 0 /\ NonEmptyTable) =>
        IF Matches(dm.dataframe, mw'.text_id) # {}
        THEN /\ dm'.current_index = SetMin(Matches(dm.dataframe, mw'.text_id))
             /\ Sig("current_item_changed", dm'.current_index) \in
                    {emitted'[k] : k \in 1..Len(emitted')}
        ELSE /\ dm'.current_index = dm.current_index
             /\ Signals(emitted') \cap {"show_error", "error_occurred"} # {}

\* C18: Enter in the ID field with an ID of the loaded table sets
\* current_index to the first row with that id and emits
\* current_item_changed for it; with an ID that is not in the table
\* current_index is unchanged and an error is reported.
C18_EnterJumpsToId == [][C18_StepOK]_vars

\* ---- C19 ---------------------------------------------------------------
\* get(section, key) returns the value DEFAULT_CONFIG was written with
C19_AllDefault(c) ==
    \A section \in DOMAIN DEFAULT_CONFIG :
        \A key \in DOMAIN DEFAULT_CONFIG[section] \cup {"extra"} :
            ConfigGet(c, section, key) =
                IF key \in DOMAIN DEFAULT_CONFIG[section]
                THEN DEFAULT_CONFIG[section][key] ELSE None

C19_StepOK ==
    /\ op' = "reset_to_defaults" => C19_AllDefault(config')
    /\ (op' = "AppConfig" /\ ~config.stored.present) => C19_AllDefault(config')

\* C19: after any sequence of set calls reset_to_defaults makes get return
\* the original default for every section and key, and an AppConfig
\* constructed with nothing stored starts from the original defaults.
C19_ResetRestoresDefaults == [][C19_StepOK]_vars

\* ---- C21 ---------------------------------------------------------------
\* stop_recording ran its body: the recorder was recording
C21_StopStep ==
    /\ op' \in {"stop_recording", "key_space"}
    /\ rec.is_recording

\* the duration carried by the recording_stopped signal
C21_Duration ==
    LET S == {i \in 1..Len(emitted') : emitted'[i].sig = "recording_stopped"}
    IN emitted'[CHOOSE i \in S : TRUE].idx

\* os.path.exists on the two files when the slot runs
C21_Exists48 == Truthy(rec.filename_48k) /\ WavExists(wavs', rec.filename_48k)

C21_Exists8 == rec.enable_8k /\ Truthy(rec.filename_8k) /\ WavExists(wavs', rec.filename_8k)

C21_Saved == C21_Duration > 0 /\ C21_Exists48

\* the current row of the table carries the new recording
C21_Marked ==
    /\ HasCurrentItem(dm')
    /\ {"recorded", "audio_path_48k", "audio_path_8k", "duration", "trimmed"}
         \subseteq dm'.dataframe.columns
    /\ CurrentRow(dm').recorded = TRUE
    /\ CurrentRow(dm').audio_path_48k = rec.filename_48k
    /\ CurrentRow(dm').audio_path_8k = (IF C21_Exists8 THEN rec.filename_8k ELSE EmptyPath)
    /\ CurrentRow(dm').duration = C21_Duration
    /\ CurrentRow(dm').trimmed = FALSE

\* show_error ran: called by the slot, or as the slot of a recorder error
C21_ErrorShown == Signals(emitted') \cap {"show_error", "error_occurred"} # {}

C21_FailedOK ==
    (C21_StopStep /\ ~C21_Saved) =>
        /\ dm'.dataframe = dm.dataframe
        /\ C21_ErrorShown
        /\ mw'.indicator = "off"

C21_SavedOK ==
    (C21_StopStep /\ C21_Saved) =>
        /\ C21_Marked
        /\ mw'.indicator = "green"

C21_StepOK == C21_FailedOK /\ C21_SavedOK

\* C21: on_recording_stopped marks the current row as recorded (recorded =
\* True, the two audio paths, the duration, trimmed = False) and sets the
\* indicator to green only if the reported duration is greater than 0 and the
\* 48 kHz file exists; otherwise the table is left unchanged, an error is
\* shown and the indicator is set to off.
C21_StoppedRegistersOrReports == [][C21_StepOK]_vars

\* ---- C22 ---------------------------------------------------------------
\* the stop of a recording that on_recording_stopped registers, on a row
\* whose uploaded cell is True
C22_RegisteredOverUploaded ==
    /\ C21_StopStep
    /\ C21_Saved
    /\ mw.text_id # 0
    /\ HasCurrentItem(dm)
    /\ RowUploaded(dm, CurrentRow(dm))

\* a navigation step that arrived at a row
C22_Arrived ==
    /\ op' \in {"next_sentence", "prev_sentence"}
    /\ "current_item_changed" \in Signals(emitted')

C22_StepOK ==
    /\ C22_RegisteredOverUploaded =>
         /\ mw'.is_uploaded = FALSE
         /\ ~RowUploaded(dm', CurrentRow(dm'))
    /\ C22_Arrived => (mw'.is_uploaded = RowUploaded(dm', CurrentRow(dm')))

\* C22: after a new recording is registered for a row that was marked
\* uploaded, the panel's upload status and the row's uploaded field are both
\* False, and a navigation that arrives at a row shows that row's uploaded
\* field, so that going away and coming back still shows it as not uploaded.
C22_RerecordClearsUploaded == [][C22_StepOK]_vars

====
